---- MODULE Spec2Model ----
(***************************************************************************)
(* A model of storyscraper: chapter discovery (list phase), the options    *)
(* record that discovery enriches, the fetch and transform phases with     *)
(* their failure logs, DeviantArt gallery pagination, the URL classifier,  *)
(* the generic link selection and content root, EroticStories stitching,   *)
(* the DeviantArt metadata sidecar, the delay before requests, the site    *)
(* transformers' fallback to the generic conversion, AO3 EPUB discovery,   *)
(* Patreon metadata inference, API pagination and Markdown file names,     *)
(* repeated title inference, download_urls.txt as text, and the assembly   *)
(* of a Literotica chapter from its pages.                                 *)
(*                                                                         *)
(* A URL is a record [scheme, host, path, tslash]: path is the sequence of *)
(* path segments and tslash says whether the path ends with "/".  An href  *)
(* is a record [kind, scheme, host, path, tslash] whose kind is "abs"      *)
(* (absolute URL), "root" (starts with "/"), "rel" (relative to the base   *)
(* directory) or "blank" (the empty string).                               *)
(***************************************************************************)
EXTENDS Integers, Sequences, FiniteSets, TLC

\* ------------------------------------------------------------------ bounds
\* Greatest number of anchors / options / API responses on a listing page.
MaxAnchors == 3
\* Longest download list, and so the largest file number, that is examined.
MaxUrls == 2
\* Most fetches the discovery of one list phase makes.
MaxDiscovery == 2
\* Largest page number that a gallery URL or an embedded page-info carries.
MaxPageNo == 2
\* Fetches of one page URL after which the model stops counting.
MaxFetches == 2
\* Most elements a parsed page holds below its body (or root).
MaxNodes == 2
\* Most header-chrome paragraphs on either side of an EroticStories page's
\* textstart anchor.
MaxHeaders == 1

VARIABLES
    \* --- discovery (list phase) of one listing page
    fetcher,        \* the fetch agent that runs the list phase
    download_url,   \* options.download_url, the start URL
    page,           \* the listing page: [present, entries]
    listed,         \* the list returned by list_phase (and written to the file)
    warned,         \* the locked counts reported through warnings.warn, in order
    lpc,            \* "start" | "listed" | "raised"
    \* --- the options record (StoryRequest) that discovery enriches
    options,        \* StoryScraperOptions: name, slug, author, chosen_*
    user,           \* the name, slug and author the request was created with
    meta,           \* what the listing page yields: title, author, gallery title
    agent,          \* the fetcher whose list phase enriches the options
    \* --- the three phases of one invocation and the story directory
    site,           \* the site profile: it selects the fetcher and the transformer
    ppc,            \* where the invocation is
    propagated,     \* "none", or the phase out of which an exception propagated
    todo,           \* discovery fetches the list phase still has to make
    discovered,     \* the chapter list that discovery yields when it succeeds
    select_raises,  \* the listing lacks the structure the fetcher requires
    literature,     \* the DeviantArt page has a "Literature Text" section
    serve,          \* per URL, what a fetch of it yields ("raise": it raises)
    force_fetch,    \* options.force_fetch
    download_file,  \* download_urls.txt: [exists, lines]
    download0,      \* download_urls.txt as it was when the invocation started
    list_writes,    \* how often the list phase has written download_urls.txt
    returned,       \* the list the list phase returned
    html_dir,       \* the html directory exists
    html,           \* html/<slug>-NNN.html by number: "absent" or its content kind
    html0,          \* html as it was when the fetch phase started
    url_list,       \* the list loaded by the fetch phase (urls)
    idx,            \* loop index of the fetch / transform loop (1-based)
    fetched_files,  \* the list the fetch phase returns (file numbers)
    fetch_log,      \* fetch.log: the URL named by each line
    fetch_requests, \* the positions _fetch_bytes was called for, in order
    notices,        \* warnings emitted through warnings.warn
    ordered_files,  \* the html files in the order the transformer takes them
    markdown,       \* markdown/<slug>-NNN.md by number: 0, or the html file rendered
    generated,      \* the list the transform phase returns (markdown numbers)
    transform_log,  \* transform.log: the html file named by each line
    \* --- DeviantArt gallery pagination (_collect_gallery_urls)
    gpc,            \* "top" of the while loop, in its "body", or "done"
    gallery_url,    \* base_url: the gallery URL the list phase fetched first
    next_url,       \* the page to visit next, or Missing
    current_page,   \* current_soup / current_html: the page in hand, if loaded
    last_page,      \* the page whose body ran last
    seen_pages,     \* URLs of the pages visited
    total_pages,    \* the most recent totalPages seen, or Missing
    gallery_ordered, \* ordered: the art URLs collected
    fetch_count,    \* per page URL, how often it was fetched
    visited,        \* the page URLs in the order their bodies ran
    overran,        \* pagination went on from a page whose own page-info said final
    \* --- functions applied to one input (classifier, selectors, converters)
    applied,        \* the function that was applied, "" before
    arg,            \* its input
    result          \* what it returned

varsList == <<fetcher, download_url, page, listed, warned, lpc>>
varsOpt == <<options, user, meta, agent>>
varsInput == <<site, discovered, select_raises, literature, serve, force_fetch, download0>>
varsListPhase == <<todo, download_file, list_writes, returned>>
varsFetch == <<html_dir, html, html0, url_list, fetched_files, fetch_log, fetch_requests>>
varsTransform == <<ordered_files, markdown, generated, transform_log>>
varsPipe == <<varsInput, varsListPhase, varsFetch, varsTransform, ppc, propagated, idx, notices>>

varsGallery == <<gpc, gallery_url, next_url, current_page, last_page, seen_pages,
                 total_pages, gallery_ordered, fetch_count, visited, overran>>

varsFn == <<applied, arg, result>>

vars == <<varsList, varsOpt, varsPipe, varsGallery, varsFn>>

\* ---------------------------------------------------------------- URL model
MkUrl(sc, h, p, t) == [scheme |-> sc, host |-> h, path |-> p, tslash |-> t]
Href(k, sc, h, p, t) == [kind |-> k, scheme |-> sc, host |-> h, path |-> p, tslash |-> t]

BlankHref == Href("blank", "", "", <<>>, FALSE)
RelHref(p) == Href("rel", "", "", p, FALSE)

\* The start URLs tried: a story file under /s/ and the /s/ directory itself.
StartUrls == {MkUrl("https", "h", <<"s", "a">>, FALSE), MkUrl("https", "h", <<"s">>, TRUE)}

\* The href attribute values tried on anchors (and as option values, work slugs
\* and post ids): the empty string, two chapters, the first chapter written as
\* an absolute URL, the same path on another host, and the file "a".
Hrefs ==
    { BlankHref, RelHref(<<"c1">>), RelHref(<<"c2">>), RelHref(<<"a">>),
      Href("abs", "https", "h", <<"s", "c1">>, FALSE),
      Href("abs", "https", "x", <<"s", "c1">>, FALSE) }

\* An entry of the listing: the href and one marker bit (the locked marker of
\* a Wattpad / Inkitt chapter; for a Patreon API response, that it has links.next).
Entries(flags) == [href : Hrefs, flag : flags]

SeqsUpTo(S, n) == UNION {[1..k -> S] : k \in 0..n}

Pages(presents, flags) == [present : presents, entries : SeqsUpTo(Entries(flags), MaxAnchors)]

_compute_base_directory(u) ==
    IF u.tslash \/ u.path = <<>> THEN u.path ELSE SubSeq(u.path, 1, Len(u.path) - 1)

urljoin(base, href) ==
    CASE href.kind = "abs"  -> MkUrl(href.scheme, href.host, href.path, href.tslash)
      [] href.kind = "root" -> MkUrl(base.scheme, base.host, href.path, href.tslash)
      [] href.kind = "rel"  -> MkUrl(base.scheme, base.host,
                                     _compute_base_directory(base) \o href.path, href.tslash)
      [] OTHER              -> base

_in_scope(base_parsed, candidate_parsed, base_dir) ==
    /\ base_parsed.scheme = candidate_parsed.scheme
    /\ base_parsed.host = candidate_parsed.host
    /\ Len(candidate_parsed.path) >= Len(base_dir)
    /\ SubSeq(candidate_parsed.path, 1, Len(base_dir)) = base_dir
    /\ (Len(candidate_parsed.path) > Len(base_dir) \/ candidate_parsed.tslash)

_canonicalize_url(u) ==
    IF u.path = <<>> \/ u.tslash
    THEN MkUrl(u.scheme, u.host, u.path \o <<"index.html">>, FALSE)
    ELSE MkUrl(u.scheme, u.host, u.path, u.tslash)

_urls_equal(left, right) ==
    /\ left.scheme = right.scheme
    /\ left.host = right.host
    /\ left.path = right.path

\* `if url not in seen: seen.add(url); ordered.append(url)`
add_url(ordered, url) ==
    IF \E i \in DOMAIN ordered : ordered[i] = url THEN ordered ELSE Append(ordered, url)

\* ------------------------------------------------ generic discovery (auto)
_extract_links(pg) ==
    LET hrefs[i \in 0..Len(pg.entries)] ==
            IF i = 0 THEN <<>>
            ELSE IF pg.entries[i].href.kind = "blank" THEN hrefs[i - 1]
                 ELSE Append(hrefs[i - 1], pg.entries[i].href)
    IN hrefs[Len(pg.entries)]

_filter_links(base_url, hrefs, canonical_url) ==
    LET base_dir == _compute_base_directory(base_url)
        acc[i \in 0..Len(hrefs)] ==
            IF i = 0 THEN <<>>
            ELSE LET absolute == urljoin(base_url, hrefs[i])
                 IN IF _in_scope(base_url, absolute, base_dir)
                    THEN add_url(acc[i - 1], absolute)
                    ELSE acc[i - 1]
        self_urls == <<base_url, canonical_url>>
    IN SelectSeq(acc[Len(hrefs)],
                 LAMBDA url : ~ \E j \in 1..2 : _urls_equal(url, self_urls[j]))

_select_urls(base_url, pg) ==
    _filter_links(base_url, _extract_links(pg), _canonicalize_url(base_url))

\* The result of a selection: the URLs, the warnings it emitted, and whether it raised.
Sel(urls, warns) == [urls |-> urls, warns |-> warns, raised |-> FALSE]
SelRaised == [urls |-> <<>>, warns |-> <<>>, raised |-> TRUE]

\* --------------------------------------------------- site-specific discovery
\* Wattpad: the anchors of ul.table-of-contents; locked ones are counted and skipped.
wattpad_select_urls(base_url, pg) ==
    IF ~ pg.present THEN Sel(_select_urls(base_url, pg), <<>>)
    ELSE LET st[i \in 0..Len(pg.entries)] ==
                 IF i = 0 THEN [ordered |-> <<>>, locked |-> 0]
                 ELSE LET anchor == pg.entries[i]
                      IN IF anchor.flag THEN [st[i - 1] EXCEPT !.locked = @ + 1]
                         ELSE IF anchor.href.kind = "blank" THEN st[i - 1]
                         ELSE [st[i - 1] EXCEPT
                                  !.ordered = add_url(@, urljoin(base_url, anchor.href))]
             fin == st[Len(pg.entries)]
         IN Sel(IF fin.ordered # <<>> THEN fin.ordered ELSE _select_urls(base_url, pg),
                IF fin.locked > 0 THEN <<fin.locked>> ELSE <<>>)

\* Inkitt: the li items of the chapter dropdown; those with the patron icon are
\* counted and skipped.  Returns the pair (ordered, locked) as a record.
inkitt_extract_chapters(base_url, pg) ==
    IF ~ pg.present THEN [ordered |-> _select_urls(base_url, pg), locked |-> 0]
    ELSE LET st[i \in 0..Len(pg.entries)] ==
                 IF i = 0 THEN [ordered |-> <<>>, locked |-> 0]
                 ELSE LET li == pg.entries[i]
                      IN IF li.href.kind = "blank" THEN st[i - 1]
                         ELSE IF li.flag THEN [st[i - 1] EXCEPT !.locked = @ + 1]
                         ELSE [st[i - 1] EXCEPT
                                  !.ordered = add_url(@, urljoin(base_url, li.href))]
         IN st[Len(pg.entries)]

\* FanFiction: the option values of #chap_select, each mapped to /s/<id>/<value>[/<slug>].
fanfiction_select_urls(base_url, pg) ==
    LET segments == base_url.path
    IN IF Len(segments) < 2 \/ segments[1] # "s" THEN SelRaised
       ELSE LET base == MkUrl(base_url.scheme, base_url.host, <<"s", segments[2]>>, TRUE)
                slug == IF Len(segments) > 3 THEN <<segments[4]>> ELSE <<>>
                ordered[i \in 0..Len(pg.entries)] ==
                    IF i = 0 THEN <<>>
                    ELSE LET value == pg.entries[i].href
                         IN IF value.kind = "blank" THEN ordered[i - 1]
                            ELSE Append(ordered[i - 1],
                                        urljoin(base, [value EXCEPT !.path = @ \o slug]))
            IN IF ~ pg.present \/ ordered[Len(pg.entries)] = <<>>
               THEN Sel(<<base_url>>, <<>>)
               ELSE Sel(ordered[Len(pg.entries)], <<>>)

\* Patreon: entry i is the i-th API response of the collection (one post id; its
\* flag says that it carries links.next, which leads to response i+1).  A next
\* link past the last response modelled gets a response without ids or next link.
_post_url_from_id(post_id) == MkUrl("https", "www.patreon.com", <<"posts">> \o post_id, FALSE)

_collect_post_ids(pg) ==
    LET requested(i) == \A j \in 1..(i - 1) : pg.entries[j].flag
        post_ids[i \in 0..Len(pg.entries)] ==
            IF i = 0 THEN <<>>
            ELSE IF requested(i) /\ pg.entries[i].href.kind # "blank"
                 THEN Append(post_ids[i - 1], pg.entries[i].href.path)
                 ELSE post_ids[i - 1]
    IN post_ids[Len(pg.entries)]

patreon_urls(pg) ==
    LET post_ids == _collect_post_ids(pg)
    IN IF ~ pg.present THEN SelRaised    \* _extract_collection_id raises ValueError
       ELSE Sel([i \in DOMAIN post_ids |-> _post_url_from_id(post_ids[i])], <<>>)

\* Literotica series: the works of the embedded state, each slug joined to /s/.
LiteroticaBase == MkUrl("https", "h", <<"s">>, TRUE)

_chapter_url(work) ==
    urljoin(LiteroticaBase, IF work.href.kind = "root" THEN [work.href EXCEPT !.kind = "rel"]
                            ELSE work.href)

literotica_series_urls(base_url, pg) ==
    LET ordered_urls == [i \in DOMAIN pg.entries |-> _chapter_url(pg.entries[i])]
    IN IF ordered_urls = <<>> THEN Sel(_select_urls(base_url, pg), <<>>)
       ELSE Sel(ordered_urls, <<>>)

\* BDSMLibrary (_extract_chapter_urls) and EroticStories (_extract_parts): the
\* anchors that name a chapter of this story, joined to the base and de-duplicated.
\* An anchor names a chapter when its href ends in one of the chapter files
\* (chapter.php?storyid=<id>..., story.php?id=<n>), here "c1" and "c2".
_extract_chapter_urls(base_url, pg) ==
    LET names_chapter(h) == h.kind # "blank" /\ h.path # <<>> /\ h.path[Len(h.path)] \in {"c1", "c2"}
        ordered[i \in 0..Len(pg.entries)] ==
            IF i = 0 THEN <<>>
            ELSE IF names_chapter(pg.entries[i].href)
                 THEN add_url(ordered[i - 1], urljoin(base_url, pg.entries[i].href))
                 ELSE ordered[i - 1]
    IN ordered[Len(pg.entries)]

eroticstories_urls(base_url, pg) ==
    LET parts == _extract_chapter_urls(base_url, pg)
    IN IF pg.present /\ parts # <<>> THEN parts ELSE <<base_url>>

\* ------------------------------------------------------- list phase actions
\* list_phase of one fetcher on the listing page: the list it returns (the same
\* list goes to _write_download_list) and the warnings it emits.
Finish(r) ==
    /\ lpc = "start"
    /\ listed' = r.urls
    /\ warned' = r.warns
    /\ lpc' = IF r.raised THEN "raised" ELSE "listed"
    /\ UNCHANGED <<fetcher, download_url, page, varsOpt, varsPipe, varsGallery, varsFn>>

ListAuto == fetcher = "auto" /\ Finish(Sel(_select_urls(download_url, page), <<>>))

ListWattpad == fetcher = "wattpad" /\ Finish(wattpad_select_urls(download_url, page))

ListInkitt ==
    /\ fetcher = "inkitt"
    /\ LET r == inkitt_extract_chapters(download_url, page)
       IN Finish(Sel(r.ordered, IF r.locked > 0 THEN <<r.locked>> ELSE <<>>))

ListFanFiction == fetcher = "fanfiction" /\ Finish(fanfiction_select_urls(download_url, page))

ListPatreon == fetcher = "patreon" /\ Finish(patreon_urls(page))

ListLiteroticaSeries ==
    fetcher = "literotica" /\ Finish(literotica_series_urls(download_url, page))

ListBdsmlibrary ==
    fetcher = "bdsmlibrary" /\ Finish(Sel(_extract_chapter_urls(download_url, page), <<>>))

ListEroticStories ==
    fetcher = "eroticstories" /\ Finish(Sel(eroticstories_urls(download_url, page), <<>>))

\* The listing pages tried for each fetcher: the marker bit and the presence of
\* the navigation structure vary only where the fetcher reads them.
PagesFor(f) ==
    CASE f \in {"wattpad", "inkitt"} -> Pages(BOOLEAN, BOOLEAN)
      [] f = "patreon"               -> Pages(BOOLEAN, BOOLEAN)
      [] f \in {"fanfiction", "eroticstories"} -> Pages(BOOLEAN, {FALSE})
      [] OTHER                       -> Pages({TRUE}, {FALSE})

Fetchers ==
    {"auto", "wattpad", "inkitt", "fanfiction", "patreon", "literotica",
     "bdsmlibrary", "eroticstories"}

\* An absent value of an optional number or URL (None).
Missing == 0

\* No function applied, while another part of the program is examined.
ParkFn == applied = "parked" /\ arg = 0 /\ result = 0

\* Gallery pagination while another part of the program is examined.
ParkGallery ==
    /\ gpc = "parked" /\ gallery_url = 1 /\ next_url = Missing
    /\ current_page = [loaded |-> FALSE, next |-> Missing, cur |-> Missing, tot |-> Missing]
    /\ last_page = current_page
    /\ seen_pages = {} /\ total_pages = Missing /\ gallery_ordered = <<>>
    /\ fetch_count = [u \in 1..(MaxPageNo + 2) |-> 0]
    /\ visited = <<>> /\ overran = FALSE

\* The story directory while another part of the program is examined.
ParkPipe ==
    /\ site = "auto" /\ ppc = "parked" /\ propagated = "none"
    /\ todo = 0 /\ discovered = <<>> /\ select_raises = FALSE /\ literature = TRUE
    /\ serve = [u \in {"u1", "u2"} |-> "ok"] /\ force_fetch = FALSE
    /\ download_file = [exists |-> FALSE, lines |-> <<>>]
    /\ download0 = [exists |-> FALSE, lines |-> <<>>]
    /\ list_writes = 0 /\ returned = <<>>
    /\ html_dir = FALSE
    /\ html = [i \in 1..MaxUrls |-> "absent"] /\ html0 = [i \in 1..MaxUrls |-> "absent"]
    /\ url_list = <<>> /\ idx = 1 /\ fetched_files = <<>> /\ fetch_log = <<>>
    /\ fetch_requests = <<>>
    /\ notices = <<>> /\ ordered_files = <<>>
    /\ markdown = [i \in 1..MaxUrls |-> 0] /\ generated = <<>> /\ transform_log = <<>>

\* The options part of the state while another part of the program is examined.
ParkOpt ==
    /\ options = [name |-> "", slug |-> "", author |-> "",
                  chosen_name |-> "", chosen_slug |-> "", chosen_author |-> ""]
    /\ user = [name |-> "", slug |-> "", author |-> ""]
    /\ meta = [title |-> "", author |-> "", gallery |-> ""]
    /\ agent = "auto"

InitList ==
    /\ ParkGallery /\ ParkFn
    /\ ParkOpt
    /\ ParkPipe
    /\ fetcher \in Fetchers
    /\ download_url \in StartUrls
    /\ page \in PagesFor(fetcher)
    /\ listed = <<>>
    /\ warned = <<>>
    /\ lpc = "start"

NextList ==
    \/ ListAuto \/ ListWattpad \/ ListInkitt \/ ListFanFiction \/ ListPatreon
    \/ ListLiteroticaSeries \/ ListBdsmlibrary \/ ListEroticStories

SpecList == InitList /\ [][NextList]_vars

\* ------------------------------------------------------------ claims C1, C3
NoDup(s) == \A i, j \in DOMAIN s : i # j => s[i] # s[j]

\* C1: for every fetcher and every listing input, the list returned by
\* list_phase (and written to download_urls.txt) contains no URL twice.
C1_NoUrlTwice == lpc = "listed" => NoDup(listed)

\* The chapter entries of a table of contents / chapter dropdown, and the
\* locked ones among them.  A listing is well formed when every entry carries
\* an href and no two entries name the same URL.
LockedEntries == SelectSeq(page.entries, LAMBDA e : e.flag)
WellFormedListing ==
    /\ \A i \in DOMAIN page.entries : page.entries[i].href.kind # "blank"
    /\ NoDup([i \in DOMAIN page.entries |-> urljoin(download_url, page.entries[i].href)])

\* C3: on a Wattpad table of contents or Inkitt chapter dropdown with N
\* chapter entries of which K are locked, the discovered list has exactly N-K
\* entries, none of them the URL of a locked entry, exactly one warning
\* reporting K is emitted when K > 0 and none when K = 0, and discovery does
\* not fail.
C3_LockedFiltering ==
    (fetcher \in {"wattpad", "inkitt"} /\ page.present /\ WellFormedListing /\ lpc # "start")
    => /\ lpc = "listed"
       /\ Len(listed) = Len(page.entries) - Len(LockedEntries)
       /\ \A i \in DOMAIN listed : \A k \in DOMAIN LockedEntries :
              listed[i] # urljoin(download_url, LockedEntries[k].href)
       /\ warned = IF Len(LockedEntries) > 0 THEN <<Len(LockedEntries)>> ELSE <<>>

\* ------------------------------------------------------------------ options
\* Python's None; with the empty string it is the falsy value of a text field.
None == "<None>"
Truthy(v) == v \notin {None, ""}
\* `a or b`
Or(a, b) == IF Truthy(a) THEN a ELSE b

\* slugify: lower-case, runs of other characters become "-", stripped; "story" if empty.
slugify(value) ==
    CASE value = "Mine"       -> "mine"
      [] value = "my-slug"    -> "my-slug"
      [] value = "Url Name"   -> "url-name"
      [] value = "A Tale"     -> "a-tale"
      [] value = "Folder One" -> "folder-one"
      [] value = "Tale"       -> "tale"
      [] OTHER                -> "story"     \* "!!", "" : nothing alphanumeric left

effective_name(o) == Or(Or(o.name, o.chosen_name), "Story")
effective_slug(o) == Or(Or(o.slug, o.chosen_slug), "story")
effective_author(o) == Or(Or(o.author, o.chosen_author), "Unknown")

\* `author=options.author or author_text, chosen_author=author_text` when the
\* page names an author (shared by every fetcher but mcstories).
WithAuthor(o, new, author_text) ==
    IF Truthy(author_text)
    THEN [new EXCEPT !.author = Or(o.author, author_text), !.chosen_author = author_text]
    ELSE new

\* postprocess_listing of the Wattpad, FanFiction and AO3 fetchers.
postprocess_listing(o, title_text, author_text) ==
    LET name == Or(o.name, title_text)
        slug_candidate == slugify(Or(name, title_text))
        slug == IF ~ Truthy(o.slug) THEN slug_candidate ELSE o.slug
        chosen_slug == IF ~ Truthy(o.slug) THEN slug_candidate ELSE o.chosen_slug
        titled == IF Truthy(title_text)
                  THEN [o EXCEPT !.name = name, !.slug = slug, !.chosen_name = title_text,
                                 !.chosen_slug = Or(chosen_slug, slugify(title_text))]
                  ELSE o
    IN WithAuthor(o, titled, author_text)

\* A variant of the title update in which the inferred title replaces the name
\* even when the user supplied one.
WithTitle_InferredWins(o, new, title) ==
    IF ~ Truthy(title) THEN new
    ELSE [new EXCEPT !.name = title, !.chosen_name = title]

\* The title part of _update_options_from_metadata: `new` is the record being
\* built, `o` the options the user values are read from.
WithTitle(o, new, title) ==
    IF ~ Truthy(title) THEN new
    ELSE LET named == [new EXCEPT !.name = Or(o.name, title), !.chosen_name = title]
         IN IF ~ Truthy(o.slug)
            THEN [named EXCEPT !.slug = slugify(title), !.chosen_slug = slugify(title)]
            ELSE IF ~ Truthy(new.chosen_slug)
                 THEN [named EXCEPT !.chosen_slug = slugify(title)]
                 ELSE named

\* _update_options_from_metadata / _update_options of the Inkitt, Patreon,
\* Literotica, BDSMLibrary and DeviantArt fetchers.
_update_options_from_metadata(o, title, author) ==
    WithAuthor(o, WithTitle(o, o, title), author)

\* DeviantArt gallery: the og:title metadata first, then the gallery folder title.
_update_options_from_gallery_title(updated, title, original_options) ==
    WithTitle(original_options, updated, title)

\* MCStories: _apply_title then _apply_author.
mcstories_postprocess_listing(o, title_text, author_text) ==
    LET titled == postprocess_listing(o, title_text, "")
    IN IF Truthy(titled.author) THEN [titled EXCEPT !.chosen_author = titled.author]
       ELSE IF Truthy(author_text) THEN [titled EXCEPT !.chosen_author = author_text]
       ELSE titled

\* The list phase of each family of fetchers, as far as the options go:
\* the hook computes the updated record and _sync_options copies it back.
EnrichAuto ==
    /\ agent = "auto"
    /\ options' = options
    /\ UNCHANGED <<user, meta, agent, varsList, varsPipe, varsGallery, varsFn>>

EnrichPostprocess ==
    /\ agent \in {"wattpad", "fanfiction", "ao3"}
    /\ options' = postprocess_listing(options, meta.title, meta.author)
    /\ UNCHANGED <<user, meta, agent, varsList, varsPipe, varsGallery, varsFn>>

EnrichMetadata ==
    /\ agent \in {"inkitt", "patreon", "literotica", "bdsmlibrary", "deviantart"}
    /\ options' = _update_options_from_metadata(options, meta.title, meta.author)
    /\ UNCHANGED <<user, meta, agent, varsList, varsPipe, varsGallery, varsFn>>

EnrichGallery ==
    /\ agent = "deviantart_gallery"
    /\ options' = _update_options_from_gallery_title(
                      _update_options_from_metadata(options, meta.title, meta.author),
                      meta.gallery, options)
    /\ UNCHANGED <<user, meta, agent, varsList, varsPipe, varsGallery, varsFn>>

EnrichMcstories ==
    /\ agent = "mcstories"
    /\ options' = mcstories_postprocess_listing(options, meta.title, meta.author)
    /\ UNCHANGED <<user, meta, agent, varsList, varsPipe, varsGallery, varsFn>>

\* parse_cli_args fills the chosen_* fields from the user values and the URL;
\* a request built directly (as the tests do) leaves them unset.
parse_cli_args(u) ==
    LET chosen_name == Or(u.name, "Url Name")
    IN [name |-> u.name, slug |-> u.slug, author |-> u.author,
        chosen_name |-> chosen_name,
        chosen_slug |-> slugify(Or(u.slug, chosen_name)),
        chosen_author |-> u.author]

Agents ==
    {"auto", "wattpad", "fanfiction", "ao3", "inkitt", "patreon", "literotica",
     "bdsmlibrary", "deviantart", "deviantart_gallery", "mcstories"}

\* The list part of the state while another part of the program is examined.
ParkList ==
    /\ fetcher = "auto"
    /\ download_url = MkUrl("https", "h", <<"s">>, TRUE)
    /\ page = [present |-> FALSE, entries |-> <<>>]
    /\ listed = <<>>
    /\ warned = <<>>
    /\ lpc = "parked"

InitOpt ==
    /\ ParkGallery /\ ParkFn
    /\ ParkList
    /\ ParkPipe
    /\ user \in [name : {None, "", "Mine"}, slug : {None, "", "my-slug"}, author : {None, "Ann"}]
    /\ options \in {parse_cli_args(user),
                    [name |-> user.name, slug |-> user.slug, author |-> user.author,
                     chosen_name |-> None, chosen_slug |-> None, chosen_author |-> None]}
    /\ meta \in [title : {None, "A Tale", "!!"}, author : {None, "Bob"},
                 gallery : {None, "Folder One"}]
    /\ agent \in Agents

NextOpt ==
    \/ EnrichAuto \/ EnrichPostprocess \/ EnrichMetadata \/ EnrichGallery \/ EnrichMcstories

SpecOpt == InitOpt /\ [][NextOpt]_vars

\* C2: a user-supplied name (slug, author) is what effective_name() (..slug(),
\* ..author()) returns, before and after any number of list phases; without a
\* user value the accessor returns the inferred (chosen) value, and the
\* default "Story" / "story" / "Unknown" when there is neither.
Resolves(user_value, chosen, effective, default) ==
    /\ Truthy(user_value) => effective = user_value
    /\ (~ Truthy(user_value) /\ Truthy(chosen)) => effective = chosen
    /\ (~ Truthy(user_value) /\ ~ Truthy(chosen)) => effective = default

C2_UserPrecedence ==
    /\ Resolves(user.name, options.chosen_name, effective_name(options), "Story")
    /\ Resolves(user.slug, options.chosen_slug, effective_slug(options), "story")
    /\ Resolves(user.author, options.chosen_author, effective_author(options), "Unknown")

\* A user-named request whose list phase inferred another title from the page.
C2_Witness ==
    /\ user.name = "Mine" /\ options.chosen_name = "A Tale"
    /\ user.author = "Ann" /\ options.chosen_author = "Bob"
    /\ user.slug = "my-slug" /\ options.chosen_slug # None

(***************************************************************************)
(* One invocation: list phase, fetch phase, transform phase, and the story *)
(* directory they share.                                                   *)
(***************************************************************************)
Urls == {"u1", "u2"}
UrlLists == UNION {[1..n -> Urls] : n \in 0..MaxUrls}
Sites == {"auto", "bdsmlibrary", "patreon", "deviantart", "ao3"}
ServeKinds == {"raise", "ok", "undecodable", "unconvertible"}

\* _write_download_list: one line per URL.
_write_download_list(url_seq) == [exists |-> TRUE, lines |-> url_seq]

\* _load_download_list: the stripped non-blank lines.
_load_download_list(file) == SelectSeq(file.lines, LAMBDA line : line # "")

DownloadFiles ==
    {[exists |-> FALSE, lines |-> <<>>]} \cup {_write_download_list(l) : l \in UrlLists}

Raise(phase) ==
    /\ ppc' = "raised"
    /\ propagated' = phase

\* One discovery fetch of the list phase (_fetch_text / _fetch_json): it
\* returns, or its exception leaves list_phase.
ListFetch ==
    /\ ppc = "list"
    /\ todo > 0
    /\ \/ /\ todo' = todo - 1
          /\ UNCHANGED <<ppc, propagated>>
       \/ /\ Raise("list")
          /\ UNCHANGED todo
    /\ UNCHANGED <<download_file, list_writes, returned, idx, notices>>
    /\ UNCHANGED <<varsInput, varsFetch, varsTransform, varsList, varsOpt, varsGallery, varsFn>>

\* Discovery fetched everything but the listing lacks what the fetcher needs
\* (no EPUB link, no collection id, unexpected story URL): ValueError.
ListRaise ==
    /\ ppc = "list"
    /\ todo = 0
    /\ select_raises
    /\ Raise("list")
    /\ UNCHANGED <<todo, download_file, list_writes, returned, idx, notices>>
    /\ UNCHANGED <<varsInput, varsFetch, varsTransform, varsList, varsOpt, varsGallery, varsFn>>

\* DeviantArt, single deviation without a literature section: warn, return [].
ListNonLiterature ==
    /\ ppc = "list"
    /\ todo = 0
    /\ ~ select_raises
    /\ site = "deviantart" /\ ~ literature
    /\ notices' = Append(notices, "non-literature")
    /\ returned' = <<>>
    /\ ppc' = "list_done"
    /\ UNCHANGED <<todo, download_file, list_writes, propagated, idx>>
    /\ UNCHANGED <<varsInput, varsFetch, varsTransform, varsList, varsOpt, varsGallery, varsFn>>

\* The end of every other list phase: _write_download_list, return ordered_urls.
ListWrite ==
    /\ ppc = "list"
    /\ todo = 0
    /\ ~ select_raises
    /\ ~ (site = "deviantart" /\ ~ literature)
    /\ download_file' = _write_download_list(discovered)
    /\ list_writes' = list_writes + 1
    /\ returned' = discovered
    /\ ppc' = "list_done"
    /\ UNCHANGED <<todo, propagated, idx, notices>>
    /\ UNCHANGED <<varsInput, varsFetch, varsTransform, varsList, varsOpt, varsGallery, varsFn>>

\* The story directory before anything was fetched into it.
NoHtml == [i \in 1..MaxUrls |-> "absent"]
NoMarkdown == [i \in 1..MaxUrls |-> 0]

AtPhaseStart ==
    /\ propagated = "none" /\ list_writes = 0 /\ returned = <<>>
    /\ url_list = <<>> /\ idx = 1 /\ fetched_files = <<>> /\ fetch_log = <<>>
    /\ fetch_requests = <<>>
    /\ notices = <<>> /\ ordered_files = <<>> /\ generated = <<>> /\ transform_log = <<>>

InitListPhase ==
    /\ ParkList /\ ParkOpt /\ ParkGallery /\ ParkFn
    /\ AtPhaseStart
    /\ ppc = "list"
    /\ site \in Sites
    /\ todo \in 1..MaxDiscovery
    /\ discovered \in UrlLists
    /\ select_raises \in BOOLEAN
    /\ literature \in BOOLEAN
    /\ serve = [u \in Urls |-> "ok"] /\ force_fetch = FALSE
    /\ download0 \in DownloadFiles
    /\ download_file = download0
    /\ html_dir = FALSE /\ html = NoHtml /\ html0 = NoHtml /\ markdown = NoMarkdown

NextListPhase == ListFetch \/ ListRaise \/ ListNonLiterature \/ ListWrite

SpecListPhase == InitListPhase /\ [][NextListPhase]_vars

\* C4: in every list phase download_urls.txt is written once, only after all
\* discovery fetches succeeded; while discovery runs and when it raises, the
\* file is as it was before (absent, or the earlier list).
C4_WrittenOnceAfterDiscovery ==
    /\ ppc = "list" => (list_writes = 0 /\ download_file = download0)
    /\ ppc = "raised" => (list_writes = 0 /\ download_file = download0)
    /\ ppc = "list_done" =>
           /\ todo = 0
           /\ list_writes = 1
           /\ download_file = _write_download_list(returned)

\* The part of C4 that every list phase does satisfy: the file is never
\* written before discovery has finished, never more than once, and a list
\* phase that raises leaves it as it was.
ListWriteIsLast ==
    /\ list_writes <= 1
    /\ ppc \in {"list", "raised"} => (list_writes = 0 /\ download_file = download0)
    /\ list_writes = 1 => (todo = 0 /\ ppc = "list_done"
                           /\ download_file = _write_download_list(returned))

(***************************************************************************)
(* Fetch phase.                                                            *)
(***************************************************************************)
\* Entry of fetch_phase: create the directories, load download_urls.txt
\* (FileNotFoundError when it is missing); the AO3 fetcher takes the EPUB
\* route for a list of exactly one URL and the generic loop otherwise.
FetchStart ==
    /\ ppc = "fetch"
    /\ html_dir' = TRUE
    /\ \/ /\ ~ download_file.exists
          /\ Raise("fetch")
          /\ UNCHANGED <<url_list, notices>>
       \/ /\ download_file.exists
          /\ url_list' = _load_download_list(download_file)
          /\ ppc' = IF site = "ao3" /\ Len(url_list') = 1 THEN "fetch_epub" ELSE "fetch_loop"
          /\ notices' = IF site = "ao3" /\ Len(url_list') # 1
                        THEN Append(notices, "ao3-fallback") ELSE notices
          /\ UNCHANGED propagated
    /\ UNCHANGED <<html, html0, fetched_files, fetch_log, fetch_requests, idx>>
    /\ UNCHANGED <<varsInput, varsListPhase, varsTransform, varsList, varsOpt, varsGallery, varsFn>>

\* A variant of the loop body without the try/except around the fetch: the
\* exception of a failing fetch leaves fetch_phase.
FetchItem_Unguarded ==
    /\ ppc = "fetch_loop"
    /\ idx <= Len(url_list)
    /\ LET url == url_list[idx]
           skip == html[idx] # "absent" /\ ~ force_fetch
       IN \/ /\ skip
             /\ idx' = idx + 1
             /\ UNCHANGED <<html, fetched_files, fetch_requests, ppc, propagated>>
          \/ /\ ~ skip
             /\ serve[url] = "raise"
             /\ fetch_requests' = Append(fetch_requests, idx)
             /\ Raise("fetch")
             /\ UNCHANGED <<html, fetched_files, idx>>
          \/ /\ ~ skip
             /\ serve[url] # "raise"
             /\ fetch_requests' = Append(fetch_requests, idx)
             /\ html' = [html EXCEPT ![idx] = serve[url]]
             /\ fetched_files' = Append(fetched_files, idx)
             /\ idx' = idx + 1
             /\ UNCHANGED <<ppc, propagated>>
    /\ UNCHANGED <<html_dir, html0, url_list, fetch_log, notices>>
    /\ UNCHANGED <<varsInput, varsListPhase, varsTransform, varsList, varsOpt, varsGallery, varsFn>>

\* A variant of the loop body that fetches every URL, whether or not its
\* file exists.
FetchItem_AlwaysFetches ==
    /\ ppc = "fetch_loop"
    /\ idx <= Len(url_list)
    /\ LET url == url_list[idx]
       IN \/ /\ serve[url] = "raise"
             /\ fetch_requests' = Append(fetch_requests, idx)
             /\ fetch_log' = Append(fetch_log, url)
             /\ UNCHANGED <<html, fetched_files>>
          \/ /\ serve[url] # "raise"
             /\ fetch_requests' = Append(fetch_requests, idx)
             /\ html' = [html EXCEPT ![idx] = serve[url]]
             /\ fetched_files' = Append(fetched_files, idx)
             /\ UNCHANGED fetch_log
    /\ idx' = idx + 1
    /\ UNCHANGED <<html_dir, html0, url_list, ppc, propagated, notices>>
    /\ UNCHANGED <<varsInput, varsListPhase, varsTransform, varsList, varsOpt, varsGallery, varsFn>>

\* One iteration of `for index, url in enumerate(urls, start=1)`.
FetchItem ==
    /\ ppc = "fetch_loop"
    /\ idx <= Len(url_list)
    /\ LET url == url_list[idx]
           skip == html[idx] # "absent" /\ ~ force_fetch
       IN \/ /\ skip
             /\ UNCHANGED <<html, fetched_files, fetch_log, fetch_requests>>
          \/ /\ ~ skip
             /\ serve[url] = "raise"
             /\ fetch_requests' = Append(fetch_requests, idx)
             /\ fetch_log' = Append(fetch_log, url)
             /\ UNCHANGED <<html, fetched_files>>
          \/ /\ ~ skip
             /\ serve[url] # "raise"
             /\ fetch_requests' = Append(fetch_requests, idx)
             /\ html' = [html EXCEPT ![idx] = serve[url]]
             /\ fetched_files' = Append(fetched_files, idx)
             /\ UNCHANGED fetch_log
    /\ idx' = idx + 1
    /\ UNCHANGED <<html_dir, html0, url_list, ppc, propagated, notices>>
    /\ UNCHANGED <<varsInput, varsListPhase, varsTransform, varsList, varsOpt, varsGallery, varsFn>>

\* `return fetched_files` after the loop.
FetchReturn ==
    /\ ppc = "fetch_loop"
    /\ idx > Len(url_list)
    /\ ppc' = "fetch_done"
    /\ UNCHANGED <<propagated, idx, notices>>
    /\ UNCHANGED <<varsInput, varsListPhase, varsFetch, varsTransform, varsList, varsOpt, varsGallery, varsFn>>

\* AO3 with one URL and no cached EPUB: fetch it (a failure is logged and
\* [] returned), then _extract_epub, which raises on a body that is not a
\* well-formed EPUB and otherwise writes the spine document as file 1.
FetchEpub ==
    /\ ppc = "fetch_epub"
    /\ fetch_requests' = Append(fetch_requests, 1)
    /\ LET url == url_list[1]
       IN \/ /\ serve[url] = "raise"
             /\ fetch_log' = Append(fetch_log, url)
             /\ ppc' = "fetch_done"
             /\ UNCHANGED <<html, fetched_files, propagated, notices>>
          \/ /\ serve[url] = "ok"
             /\ html' = [html EXCEPT ![1] = "ok"]
             /\ fetched_files' = <<1>>
             /\ notices' = Append(notices, "ao3-extracted")
             /\ ppc' = "fetch_done"
             /\ UNCHANGED <<fetch_log, propagated>>
          \/ /\ serve[url] \notin {"raise", "ok"}
             /\ Raise("fetch")
             /\ UNCHANGED <<html, fetched_files, fetch_log, notices>>
    /\ UNCHANGED <<html_dir, html0, url_list, idx>>
    /\ UNCHANGED <<varsInput, varsListPhase, varsTransform, varsList, varsOpt, varsGallery, varsFn>>

InitFetch ==
    /\ ParkList /\ ParkOpt /\ ParkGallery /\ ParkFn
    /\ AtPhaseStart
    /\ ppc = "fetch"
    /\ site \in Sites
    /\ todo = 0 /\ discovered = <<>> /\ select_raises = FALSE /\ literature = TRUE
    /\ serve \in [Urls -> ServeKinds]
    /\ force_fetch \in BOOLEAN
    /\ download0 \in DownloadFiles
    /\ download_file = download0
    /\ html \in [1..MaxUrls -> {"absent", "ok", "unreadable"}]
    /\ html0 = html
    /\ html_dir = (html # NoHtml)
    /\ markdown = NoMarkdown

NextFetch == FetchStart \/ FetchItem \/ FetchReturn \/ FetchEpub

SpecFetch == InitFetch /\ [][NextFetch]_vars

\* Positions of the loaded list, in order, that satisfy a condition.
Positions(Test(_)) == SelectSeq([i \in 1..Len(url_list) |-> i], Test)

RECURSIVE Digits(_)
Digits(n) == IF n < 10 THEN <<n>> ELSE Append(Digits(n \div 10), n % 10)

destination(index) ==
    LET digits == Digits(index)
    IN IF Len(digits) >= 3 THEN digits
       ELSE [k \in 1..(3 - Len(digits)) |-> 0] \o digits

Requested(i) == \E k \in DOMAIN fetch_requests : fetch_requests[k] = i
Returned(i) == \E k \in DOMAIN fetched_files : fetched_files[k] = i

html_files == SelectSeq([i \in 1..MaxUrls |-> i], LAMBDA i : html[i] # "absent")

\* DeviantArt _sort_html_files_by_publish_date: files with a publish time
\* first (the time follows the file number here), the others after them by
\* name. A file is "ok" when it reads, decodes and converts.
_sort_html_files_by_publish_date(files) ==
    SelectSeq(files, LAMBDA i : html[i] = "ok") \o SelectSeq(files, LAMBDA i : html[i] # "ok")

\* What read_text(encoding="utf-8") does with a file outside any handler
\* for it: an unreadable file raises OSError, an undecodable one
\* UnicodeDecodeError.
ReadRaises(kinds) == \E i \in 1..MaxUrls : html[i] \in kinds

\* The loop body's read, decode and convert succeed on this file. The
\* BDSMLibrary transformer decodes with errors="replace".
Converts(f) ==
    \/ html[f] = "ok"
    \/ site = "bdsmlibrary" /\ html[f] = "undecodable"

\* Entry of transform_phase: FileNotFoundError without an html directory;
\* the DeviantArt transformer then sorts by publish date, reading every file
\* through _extract_publish_time, which handles OSError only.
TransformStart ==
    /\ ppc = "transform"
    /\ \/ /\ ~ html_dir
          /\ Raise("transform")
          /\ UNCHANGED ordered_files
       \/ /\ html_dir
          /\ site = "deviantart"
          /\ ReadRaises({"undecodable"})
          /\ Raise("transform")
          /\ UNCHANGED ordered_files
       \/ /\ html_dir
          /\ ~ (site = "deviantart" /\ ReadRaises({"undecodable"}))
          /\ ordered_files' = IF site = "deviantart"
                              THEN _sort_html_files_by_publish_date(html_files)
                              ELSE html_files
          /\ ppc' = "transform_loop"
          /\ UNCHANGED propagated
    /\ idx' = 1
    /\ UNCHANGED <<markdown, generated, transform_log, notices>>
    /\ UNCHANGED <<varsInput, varsListPhase, varsFetch, varsList, varsOpt, varsGallery, varsFn>>

\* One iteration of `for index, html_path in enumerate(..., start=1)`: the
\* destination carries the position in the list, and the whole body is
\* inside try/except, which logs the file.
TransformItem ==
    /\ ppc = "transform_loop"
    /\ idx <= Len(ordered_files)
    /\ LET html_path == ordered_files[idx]
       IN \/ /\ Converts(html_path)
             /\ markdown' = [markdown EXCEPT ![idx] = html_path]
             /\ generated' = Append(generated, idx)
             /\ UNCHANGED transform_log
          \/ /\ ~ Converts(html_path)
             /\ transform_log' = Append(transform_log, html_path)
             /\ UNCHANGED <<markdown, generated>>
    /\ idx' = idx + 1
    /\ UNCHANGED <<ordered_files, ppc, propagated, notices>>
    /\ UNCHANGED <<varsInput, varsListPhase, varsFetch, varsList, varsOpt, varsGallery, varsFn>>

\* After the loop: the DeviantArt transformer calls _write_metadata, which
\* reads every html file again outside any handler; then `return generated`.
TransformFinish ==
    /\ ppc = "transform_loop"
    /\ idx > Len(ordered_files)
    /\ \/ /\ site = "deviantart"
          /\ ReadRaises({"unreadable", "undecodable"})
          /\ Raise("transform")
       \/ /\ ~ (site = "deviantart" /\ ReadRaises({"unreadable", "undecodable"}))
          /\ ppc' = "done"
          /\ UNCHANGED propagated
    /\ UNCHANGED <<idx, notices>>
    /\ UNCHANGED <<varsInput, varsListPhase, varsFetch, varsTransform, varsList, varsOpt, varsGallery, varsFn>>

InitTransform ==
    /\ ParkList /\ ParkOpt /\ ParkGallery /\ ParkFn
    /\ AtPhaseStart
    /\ ppc = "transform"
    /\ site \in Sites
    /\ todo = 0 /\ discovered = <<>> /\ select_raises = FALSE /\ literature = TRUE
    /\ serve = [u \in Urls |-> "ok"] /\ force_fetch = FALSE
    /\ download0 \in {[exists |-> FALSE, lines |-> <<>>], _write_download_list(<<"u1">>)}
    /\ download_file = download0
    /\ html \in [1..MaxUrls -> {"absent", "ok", "unreadable", "undecodable", "unconvertible"}]
    /\ html0 = html
    /\ html_dir \in BOOLEAN
    /\ ~ html_dir => html = NoHtml
    /\ markdown \in {NoMarkdown, [i \in 1..MaxUrls |-> i]}

NextTransform == TransformStart \/ TransformItem \/ TransformFinish

SpecTransform == InitTransform /\ [][NextTransform]_vars

\* C6: a transform phase that found its html directory does not raise; when
\* it has finished, transform.log names each file that could not be read,
\* decoded or converted, and every other file has its Markdown written at its
\* position and returned.
C6_BadChapterIsolation ==
    /\ (ppc = "raised" /\ propagated = "transform") => ~ html_dir
    /\ ppc = "done" =>
          /\ transform_log = SelectSeq(ordered_files, LAMBDA f : ~ Converts(f))
          /\ \A k \in 1..Len(ordered_files) :
                 Converts(ordered_files[k]) => markdown[k] = ordered_files[k]
          /\ generated = SelectSeq([k \in 1..Len(ordered_files) |-> k],
                                   LAMBDA k : Converts(ordered_files[k]))

\* The same statement for the transformers other than DeviantArt's.
BadChapterIsolationElsewhere == site # "deviantart" => C6_BadChapterIsolation

(***************************************************************************)
(* main: list phase, then fetch phase, then transform phase.  No call is   *)
(* wrapped in a handler, so an exception leaving a phase leaves main.      *)
(***************************************************************************)
\* run_fetch_list_phase has returned; main enters run_fetch_phase.
MainFetch ==
    /\ ppc = "list_done"
    /\ ppc' = "fetch"
    /\ UNCHANGED <<propagated, idx, notices>>
    /\ UNCHANGED <<varsInput, varsListPhase, varsFetch, varsTransform, varsList, varsOpt, varsGallery, varsFn>>

\* run_fetch_phase has returned; main enters run_transform_phase.
MainTransform ==
    /\ ppc = "fetch_done"
    /\ ppc' = "transform"
    /\ UNCHANGED <<propagated, idx, notices>>
    /\ UNCHANGED <<varsInput, varsListPhase, varsFetch, varsTransform, varsList, varsOpt, varsGallery, varsFn>>

InitMain ==
    /\ ParkList /\ ParkOpt /\ ParkGallery /\ ParkFn
    /\ AtPhaseStart
    /\ ppc = "list"
    /\ site \in Sites
    /\ todo \in 1..MaxDiscovery
    /\ discovered \in UrlLists
    /\ site = "deviantart" => Len(discovered) = 1
    /\ select_raises \in BOOLEAN
    /\ literature \in BOOLEAN
    /\ site # "deviantart" => literature
    /\ serve \in [Urls -> ServeKinds]
    /\ force_fetch \in BOOLEAN
    /\ download0 \in {[exists |-> FALSE, lines |-> <<>>], _write_download_list(<<"u2">>)}
    /\ download_file = download0
    /\ html \in {NoHtml, [i \in 1..MaxUrls |-> IF i = 1 THEN "ok" ELSE "absent"]}
    /\ html0 = html
    /\ html_dir = (html # NoHtml)
    /\ markdown = NoMarkdown

NextMain ==
    \/ NextListPhase \/ MainFetch
    \/ NextFetch \/ MainTransform
    \/ NextTransform

SpecMain == InitMain /\ [][NextMain]_vars

\* C7: the only exceptions that leave a phase, and so main, are raised by
\* the list phase; the fetch phase and the transform phase absorb theirs.
C7_OnlyListPhasePropagates == propagated # "none" => propagated = "list"

\* C8: once the DeviantArt list phase has warned that the page is no
\* literature deviation, in a fresh story directory, it has returned the empty
\* list, no later phase raises, and the invocation ends with nothing fetched
\* and nothing transformed.
C8_WarningDoesNotStop ==
    (/\ \E k \in DOMAIN notices : notices[k] = "non-literature"
     /\ ~ download0.exists
     /\ html0 = NoHtml)
    => /\ returned = <<>>
       /\ ppc # "raised"
       /\ ppc = "done" => (fetched_files = <<>> /\ generated = <<>>)

\* C27: for the generic fetcher and transformer, after a fetch phase and a
\* transform phase every Markdown file that exists, markdown/<slug>-NNN.md,
\* is the rendering of html/<slug>-NNN.html, which holds the NNN-th URL of
\* download_urls.txt, also when the fetch of some URL failed and its html
\* file is missing.  (Stated for a story directory without earlier files.)
C27_NumberingPreserved ==
    (ppc = "done" /\ site = "auto" /\ html0 = NoHtml) =>
        \A n \in 1..MaxUrls :
            markdown[n] # 0 =>
                /\ markdown[n] = n
                /\ n <= Len(url_list)

\* The same for the runs in which no html file is missing before a later one.
NumberingPreservedWithoutGaps ==
    (\A n \in 2..MaxUrls : html[n] # "absent" => html[n - 1] # "absent")
    => C27_NumberingPreserved

(***************************************************************************)
(* DeviantArt gallery pagination: _collect_gallery_urls.                   *)
(***************************************************************************)
\* Page URLs: 1..MaxPageNo carry ?page=<that number>, the two after them
\* carry no page parameter.
GalleryUrls == 1..(MaxPageNo + 2)

\* What a fetch of a gallery page may return: a rel=next link or none, and
\* an embedded pageInfo with or without currentPage and totalPages.
PageContents ==
    [loaded : {TRUE}, next : GalleryUrls \cup {Missing},
     cur : (1..MaxPageNo) \cup {Missing}, tot : (1..MaxPageNo) \cup {Missing}]

\* The art links of a page: its own and one shared with another page.
Arts(u) == <<u, (u % (MaxPageNo + 2)) + 1>>

\* _extract_gallery_page_info: currentPage when embedded, else the digits of
\* the URL's page parameter, else 1.
_extract_gallery_page_info(pg, url) ==
    IF pg.cur # Missing THEN pg.cur
    ELSE IF url <= MaxPageNo THEN url
    ELSE 1

\* `if next_url in seen_pages` without the test.
AlreadySeen_Never(url, pages) == FALSE

\* `if next_url in seen_pages`.
AlreadySeen(url, pages) == url \in pages

\* The total test with > in place of >=.
ReachedTotal_Strict(number, total) == total # Missing /\ number > total

\* `total_pages is not None and page_number is not None and page_number >= total_pages`.
ReachedTotal(number, total) == total # Missing /\ number >= total

\* _extract_gallery_urls_from_soup: append the art URLs not collected yet.
_extract_gallery_urls_from_soup(arts, collected) ==
    LET new1 == IF \E i \in DOMAIN collected : collected[i] = arts[1]
                THEN collected ELSE Append(collected, arts[1])
    IN IF \E i \in DOMAIN new1 : new1[i] = arts[2] THEN new1 ELSE Append(new1, arts[2])

\* Top of `while next_url:` up to the fetch: leave the loop without a next
\* URL or on a page already visited; otherwise mark it and fetch it unless
\* it is the first page, which the list phase passed in.
GalleryLoopTop ==
    /\ gpc = "top"
    /\ \/ /\ next_url = Missing \/ AlreadySeen(next_url, seen_pages)
          /\ gpc' = "done"
          /\ UNCHANGED <<seen_pages, current_page, fetch_count>>
       \/ /\ next_url # Missing /\ ~ AlreadySeen(next_url, seen_pages)
          /\ seen_pages' = seen_pages \cup {next_url}
          /\ gpc' = "body"
          /\ IF current_page.loaded
             THEN UNCHANGED <<current_page, fetch_count>>
             ELSE /\ fetch_count[next_url] < MaxFetches
                  /\ current_page' \in PageContents
                  /\ fetch_count' = [fetch_count EXCEPT ![next_url] = @ + 1]
    /\ UNCHANGED <<gallery_url, next_url, last_page, total_pages, gallery_ordered,
                   visited, overran>>
    /\ UNCHANGED <<varsList, varsOpt, varsPipe, varsFn>>

\* The rest of the iteration: page info, art URLs, next link, total test.
GalleryLoopBody ==
    /\ gpc = "body"
    /\ LET page_number == _extract_gallery_page_info(current_page, next_url)
           total == IF current_page.tot # Missing THEN current_page.tot ELSE total_pages
           stop == ReachedTotal(page_number, total)
       IN /\ total_pages' = total
          /\ gallery_ordered' = _extract_gallery_urls_from_soup(Arts(next_url), gallery_ordered)
          /\ next_url' = current_page.next
          /\ visited' = Append(visited, next_url)
          /\ last_page' = current_page
          /\ \/ /\ stop
                /\ gpc' = "done"
                /\ UNCHANGED <<current_page, overran>>
             \/ /\ ~ stop
                /\ gpc' = "top"
                /\ current_page' = [loaded |-> FALSE, next |-> Missing,
                                    cur |-> Missing, tot |-> Missing]
                /\ overran' = (overran \/ (/\ current_page.cur # Missing
                                            /\ current_page.tot # Missing
                                            /\ current_page.cur >= current_page.tot))
    /\ UNCHANGED <<gallery_url, seen_pages, fetch_count>>
    /\ UNCHANGED <<varsList, varsOpt, varsPipe, varsFn>>

InitGallery ==
    /\ ParkList /\ ParkOpt /\ ParkPipe /\ ParkFn
    /\ gpc = "top"
    /\ gallery_url \in GalleryUrls
    /\ next_url = gallery_url
    /\ current_page \in PageContents
    /\ last_page = [loaded |-> FALSE, next |-> Missing, cur |-> Missing, tot |-> Missing]
    /\ seen_pages = {} /\ total_pages = Missing /\ gallery_ordered = <<>>
    /\ fetch_count = [u \in GalleryUrls |-> IF u = gallery_url THEN 1 ELSE 0]
    /\ visited = <<>> /\ overran = FALSE

NextGallery == GalleryLoopTop \/ GalleryLoopBody

\* The loop is sequential code: while an iteration is possible it is taken.
SpecGallery == InitGallery /\ [][NextGallery]_vars /\ WF_vars(NextGallery)

\* The collected art URLs are those of the visited pages, each once, in the
\* order of the first visited page that lists them.
GalleryInVisitOrder ==
    LET ArtSet(u) == {Arts(u)[1], Arts(u)[2]}
        FirstVisit(a) == CHOOSE k \in DOMAIN visited :
                             /\ a \in ArtSet(visited[k])
                             /\ \A j \in 1..(k - 1) : a \notin ArtSet(visited[j])
    IN /\ NoDup(gallery_ordered)
       /\ {gallery_ordered[i] : i \in DOMAIN gallery_ordered}
              = UNION {ArtSet(visited[k]) : k \in DOMAIN visited}
       /\ \A i, j \in DOMAIN gallery_ordered :
              i < j => FirstVisit(gallery_ordered[i]) <= FirstVisit(gallery_ordered[j])

\* The page's own embedded page-info says currentPage >= totalPages.
EmbeddedFinal(pg) == pg.cur # Missing /\ pg.tot # Missing /\ pg.cur >= pg.tot

\* C9 as stated: visiting starts at the gallery URL and follows the next
\* links, art URLs are collected in page-visit order, pagination never goes
\* on from a page whose embedded page-info says final, and the page at which
\* it stops has no next link or has embedded currentPage >= totalPages.
C9_StopRule ==
    /\ visited # <<>> => visited[1] = gallery_url
    /\ GalleryInVisitOrder
    /\ ~ overran
    /\ gpc = "done" => (last_page.next = Missing \/ EmbeddedFinal(last_page))

\* C9 amended: as above, but the page at which pagination stops has no next
\* link, or its page number (embedded currentPage, else the URL's page
\* parameter, else 1) has reached the most recent totalPages embedded in any
\* page so far, or its next link leads to a page already visited; and
\* pagination goes on only from a page for which none of these holds.
C9_StopRuleWithFallbacks ==
    LET last_url == visited[Len(visited)]
        number == IF last_page.cur # Missing THEN last_page.cur
                  ELSE IF last_url <= MaxPageNo THEN last_url ELSE 1
        reached == total_pages # Missing /\ number >= total_pages
    IN /\ visited # <<>> => visited[1] = gallery_url
       /\ GalleryInVisitOrder
       /\ ~ overran
       /\ gpc = "done" =>
              (last_page.next = Missing \/ reached \/ last_page.next \in seen_pages)
       /\ (gpc = "body" /\ visited # <<>>) =>
              (last_page.next # Missing /\ ~ reached /\ last_page.next \notin {visited[k] : k \in DOMAIN visited})

\* C9 witness: pagination stopped on the second or a later page although that
\* page has a next link to a page not visited and no embedded currentPage.
C9_Witness ==
    /\ gpc = "done"
    /\ Len(visited) >= 2
    /\ last_page.cur = Missing
    /\ last_page.next # Missing
    /\ last_page.next \notin seen_pages

\* C10: pagination terminates and fetches no page URL more than once,
\* whatever the next links and page-infos of the pages are.
C10_TerminatesFetchingOnce ==
    /\ [](\A u \in GalleryUrls : fetch_count[u] <= 1)
    /\ <>(gpc = "done")

\* C10 witness: pagination has ended on a page whose next link leads back to
\* the first page.
C10_Witness ==
    /\ gpc = "done"
    /\ Len(visited) >= 2
    /\ last_page.next = visited[1]
    /\ \A u \in GalleryUrls : fetch_count[u] <= 1

(***************************************************************************)
(* Site classification: urlclassifier.classify_url and the agents that     *)
(* parse_cli_args resolves from it.                                        *)
(***************************************************************************)
DEFAULT_AGENT == "auto"

\* A URL as the rule patterns see it: scheme, host prefix, domain, the kind
\* of its path ("none": nothing after the host), and the domain of a second
\* URL https://<domain>/x carried in its query string, if any.
Domains ==
    {"literotica.com", "bdsmlibrary.com", "inkitt.com", "patreon.com", "mcstories.com",
     "wattpad.com", "archiveofourown.org", "fanfiction.net", "eroticstories.com",
     "deviantart.com", "unknown-site.example"}
WebUrls ==
    [scheme : {"http", "https", "ftp"}, prefix : {"", "www.", "m."}, domain : Domains,
     path : {"none", "root", "stories", "collection_digits", "collection_word", "other"},
     embedded : {None, "wattpad.com", "literotica.com", "unknown-site.example"}]

SiteRule(domain, path, name) ==
    [domain |-> domain, path |-> path, name |-> name,
     fetch_agent |-> name \o "_fetcher", transform_agent |-> name \o "_transformer",
     packaging_agent |-> None]

\* _iter_rules: the rules in priority order. `path` is what the pattern
\* asks for after the host: any path, /stories/..., or /collection/<digits>.
_iter_rules ==
    << SiteRule("literotica.com", "any", "literotica"),
       SiteRule("bdsmlibrary.com", "stories", "bdsmlibrary"),
       SiteRule("inkitt.com", "stories", "inkitt"),
       SiteRule("patreon.com", "collection_digits", "patreon"),
       SiteRule("mcstories.com", "any", "mcstories"),
       SiteRule("wattpad.com", "any", "wattpad"),
       SiteRule("archiveofourown.org", "any", "ao3"),
       SiteRule("fanfiction.net", "any", "fanfiction") >>

\* rule.pattern.search(url): the pattern is not anchored, so it matches the
\* URL itself or a URL carried inside it.
search(rule, url) ==
    \/ /\ url.scheme \in {"http", "https"}
       /\ url.prefix \in {"", "www."}
       /\ url.domain = rule.domain
       /\ IF rule.path = "any" THEN url.path # "none" ELSE url.path = rule.path
    \/ /\ url.embedded = rule.domain
       /\ rule.path = "any"

NoMatch ==
    [name |-> None, fetch_agent |-> None, transform_agent |-> None, packaging_agent |-> None]

SiteMatch(rule) ==
    [name |-> rule.name, fetch_agent |-> rule.fetch_agent,
     transform_agent |-> rule.transform_agent, packaging_agent |-> rule.packaging_agent]

\* A variant of the scan in which a later matching rule replaces an earlier one.
classify_url_LastMatch(url) ==
    LET matching == {i \in DOMAIN _iter_rules : search(_iter_rules[i], url)}
    IN IF matching = {} THEN NoMatch
       ELSE SiteMatch(_iter_rules[CHOOSE i \in matching : \A j \in matching : j <= i])

\* classify_url: `for rule in _iter_rules(): if rule.pattern.search(url): return ...`.
RECURSIVE ScanRules(_, _)
ScanRules(rules, url) ==
    IF rules = <<>> THEN NoMatch
    ELSE IF search(Head(rules), url) THEN SiteMatch(Head(rules))
    ELSE ScanRules(Tail(rules), url)

classify_url(url) == ScanRules(_iter_rules, url)

\* A variant of _merge_agent that takes the first rule's agent when no
\* site matched.
_merge_agent_FirstRule(cli_value, site_match, attr) ==
    IF cli_value # DEFAULT_AGENT THEN cli_value
    ELSE IF site_match = NoMatch THEN _iter_rules[1][attr]
    ELSE Or(site_match[attr], DEFAULT_AGENT)

\* _merge_agent: the command-line value unless it is the default, then the
\* site's agent, then the default.
_merge_agent(cli_value, site_match, attr) ==
    IF cli_value # DEFAULT_AGENT THEN cli_value
    ELSE IF site_match = NoMatch THEN DEFAULT_AGENT
    ELSE Or(site_match[attr], DEFAULT_AGENT)

ClassifyUrl ==
    /\ applied = ""
    /\ applied' = "classify_url"
    /\ result' = classify_url(arg.url)
    /\ UNCHANGED <<arg, varsList, varsOpt, varsPipe, varsGallery>>

\* The part of parse_cli_args that resolves the agents and the site name.
ResolveAgents ==
    /\ applied = ""
    /\ applied' = "parse_cli_args"
    /\ LET site_match == classify_url(arg.url)
       IN result' = [fetch_agent |-> _merge_agent(arg.fetch_agent, site_match, "fetch_agent"),
                     transform_agent |->
                         _merge_agent(arg.transform_agent, site_match, "transform_agent"),
                     packaging_agent |->
                         _merge_agent(DEFAULT_AGENT, site_match, "packaging_agent"),
                     site_name |-> site_match.name]
    /\ UNCHANGED <<arg, varsList, varsOpt, varsPipe, varsGallery>>

InitClassify ==
    /\ ParkList /\ ParkOpt /\ ParkPipe /\ ParkGallery
    /\ applied = ""
    /\ arg \in [url : WebUrls, fetch_agent : {DEFAULT_AGENT, "my_fetcher"},
                transform_agent : {DEFAULT_AGENT, "my_transformer"}]
    /\ result = 0

NextClassify == ClassifyUrl \/ ResolveAgents

SpecClassify == InitClassify /\ [][NextClassify]_vars

\* C11: whenever two rules both match the URL, classify_url returns the
\* profile of the earlier one, and what it returns is determined by the URL.
C11_EarlierRuleWins ==
    applied = "classify_url" =>
        /\ \A i, j \in DOMAIN _iter_rules :
               (i < j /\ search(_iter_rules[i], arg.url) /\ search(_iter_rules[j], arg.url))
               => (result # SiteMatch(_iter_rules[j])
                   /\ \E k \in 1..i : result = SiteMatch(_iter_rules[k]))
        /\ \A k \in DOMAIN _iter_rules :
               result = SiteMatch(_iter_rules[k]) => search(_iter_rules[k], arg.url)

\* C11 witness: a Wattpad URL that carries a Literotica URL has been
\* classified; both rules match it and the earlier one, literotica, is returned.
C11_Witness ==
    /\ applied = "classify_url"
    /\ arg.url.domain = "wattpad.com" /\ arg.url.scheme = "https" /\ arg.url.path = "other"
    /\ arg.url.prefix = "www." /\ arg.url.embedded = "literotica.com"
    /\ result.name = "literotica"

\* C12: for a URL that no rule pattern matches, classify_url returns none,
\* and with no agent given on the command line the resolved request uses
\* "auto" for fetch_agent and transform_agent and has no site name.
C12_UnmatchedIsAuto ==
    (\A k \in DOMAIN _iter_rules : ~ search(_iter_rules[k], arg.url)) =>
        /\ applied = "classify_url" => result = NoMatch
        /\ (/\ applied = "parse_cli_args"
            /\ arg.fetch_agent = DEFAULT_AGENT
            /\ arg.transform_agent = DEFAULT_AGENT)
           => /\ result.fetch_agent = "auto"
              /\ result.transform_agent = "auto"
              /\ result.site_name = None

\* C12 witness: the agents of https://unknown-site.example/story, given no
\* agent on the command line, have been resolved to "auto".
C12_Witness ==
    /\ applied = "parse_cli_args"
    /\ arg.url.domain = "unknown-site.example" /\ arg.url.embedded = None
    /\ arg.url.scheme = "https" /\ arg.url.path = "other"
    /\ arg.fetch_agent = DEFAULT_AGENT /\ arg.transform_agent = DEFAULT_AGENT
    /\ result.fetch_agent = "auto" /\ result.transform_agent = "auto"

\* A story URL of a site: http or https, the bare or www. host, the path
\* shape the site's stories have, nothing carried in the query.
StoryUrlOf(url, domain, path) ==
    /\ url.scheme \in {"http", "https"} /\ url.prefix \in {"", "www."}
    /\ url.domain = domain /\ url.path = path /\ url.embedded = None

\* C13: a story URL of each supported site classifies as that site, with its
\* fetcher and transformer and no packaging agent.
C13_SupportedSites ==
    applied = "classify_url" =>
        \A site_rule \in
            {SiteRule("mcstories.com", "other", "mcstories"),
             SiteRule("literotica.com", "other", "literotica"),
             SiteRule("bdsmlibrary.com", "stories", "bdsmlibrary"),
             SiteRule("eroticstories.com", "other", "eroticstories"),
             SiteRule("inkitt.com", "stories", "inkitt"),
             SiteRule("patreon.com", "collection_digits", "patreon"),
             SiteRule("wattpad.com", "other", "wattpad"),
             SiteRule("archiveofourown.org", "other", "ao3"),
             SiteRule("fanfiction.net", "other", "fanfiction")} :
            StoryUrlOf(arg.url, site_rule.domain, site_rule.path)
                => result = SiteMatch(site_rule)

\* The same for the sites other than eroticstories.
SupportedSitesButEroticStories ==
    arg.url.domain # "eroticstories.com" => C13_SupportedSites

\* ---------------------------------------- the generic selection, by itself
\* The start URLs tried: a story file, its directory, the directory's index
\* page, and the bare host.
ScopeStartUrls ==
    { MkUrl("https", "h", <<"s", "a">>, FALSE), MkUrl("https", "h", <<"s">>, TRUE),
      MkUrl("https", "h", <<"s", "index.html">>, FALSE), MkUrl("https", "h", <<>>, FALSE) }

\* The href values tried: "", "c1", "a", "index.html", "./", "/s", "/t/c1",
\* and /s/c1 as an absolute URL on the same host, on another host and under
\* another scheme.
ScopeHrefs ==
    { BlankHref, RelHref(<<"c1">>), RelHref(<<"a">>), RelHref(<<"index.html">>),
      Href("rel", "", "", <<>>, TRUE),
      Href("root", "", "", <<"s">>, FALSE), Href("root", "", "", <<"t", "c1">>, FALSE),
      Href("abs", "https", "h", <<"s", "c1">>, FALSE),
      Href("abs", "https", "x", <<"s", "c1">>, FALSE),
      Href("abs", "http", "h", <<"s", "c1">>, FALSE) }

\* The page whose anchors carry the given href values, in order.
AnchorPage(hrefs) ==
    [present |-> TRUE,
     entries |-> [i \in DOMAIN hrefs |-> [href |-> hrefs[i], flag |-> FALSE]]]

SelectUrls ==
    /\ applied = ""
    /\ applied' = "_select_urls"
    /\ result' = _select_urls(arg.base_url, AnchorPage(arg.hrefs))
    /\ UNCHANGED <<arg, varsList, varsOpt, varsPipe, varsGallery>>

InitScope ==
    /\ ParkList /\ ParkOpt /\ ParkPipe /\ ParkGallery
    /\ applied = ""
    /\ arg \in [base_url : ScopeStartUrls, hrefs : SeqsUpTo(ScopeHrefs, MaxAnchors)]
    /\ result = <<>>

NextScope == SelectUrls

SpecScope == InitScope /\ [][NextScope]_vars

\* The path of a URL without a trailing index.html segment.
WithoutIndex(u) ==
    IF u.path # <<>> /\ u.path[Len(u.path)] = "index.html"
    THEN SubSeq(u.path, 1, Len(u.path) - 1)
    ELSE u.path

\* Two URLs name the same page up to a trailing index.html and a trailing slash.
IndexEquivalent(left, right) ==
    /\ left.scheme = right.scheme
    /\ left.host = right.host
    /\ WithoutIndex(left) = WithoutIndex(right)

\* Every selected URL is absolute, on the start URL's scheme and host, and
\* under the start URL's directory.
InScopeOfStart(url, start) ==
    /\ url.scheme # "" /\ url.host # ""
    /\ url.scheme = start.scheme /\ url.host = start.host
    /\ LET base_dir == _compute_base_directory(start)
       IN /\ Len(url.path) >= Len(base_dir)
          /\ SubSeq(url.path, 1, Len(base_dir)) = base_dir

\* C14: every URL the generic _select_urls returns is absolute, has the start
\* URL's scheme and host and a path under the start URL's directory, and is
\* neither the start URL nor the start URL with or without a trailing
\* index.html or trailing slash.
C14_GenericScope ==
    applied = "_select_urls" =>
        \A i \in DOMAIN result :
            /\ InScopeOfStart(result[i], arg.base_url)
            /\ ~ IndexEquivalent(result[i], arg.base_url)

\* What the selection does keep out: the result is in scope and holds neither
\* the start URL nor _canonicalize_url of it, up to a trailing slash.
ScopeAndCanonicalExcluded ==
    applied = "_select_urls" =>
        \A i \in DOMAIN result :
            /\ InScopeOfStart(result[i], arg.base_url)
            /\ ~ _urls_equal(result[i], arg.base_url)
            /\ ~ _urls_equal(result[i], _canonicalize_url(arg.base_url))

\* ------------------------------------- generic content root (transformers)
\* A parsed page is [body, nodes]: whether the document has a body element,
\* and its elements in document order.  An element is [kind, text, parent]:
\* text is the length of the element's own string (0: none) and parent the
\* index of its parent element (0: the body, or the root when there is no
\* body).  The kind stands for the first thing the cascade can take the
\* element for: a main element, an element with role=main, an article
\* element, an element with an article-like itemtype, a heading (h1 / h2), a
\* chrome element (nav, header, footer, role=navigation ...), or a plain div.
NodeKinds == {"main", "role_main", "article", "itemtype", "div", "h1", "nav"}

\* The lengths tried for an element's own string.
TextLengths == {0, 1, 2}

RECURSIVE IsAncestor(_, _, _)
IsAncestor(nodes, j, i) ==
    /\ nodes[i].parent # 0
    /\ (nodes[i].parent = j \/ IsAncestor(nodes, j, nodes[i].parent))

\* Document order is pre-order: an element's parent is the body, the element
\* just before it, or an ancestor of that element.
PreOrder(nodes) ==
    \A i \in DOMAIN nodes :
        \/ nodes[i].parent = 0
        \/ i > 1 /\ (nodes[i].parent = i - 1 \/ IsAncestor(nodes, nodes[i].parent, i - 1))

ParsedPages ==
    {pg \in [body : BOOLEAN,
             nodes : SeqsUpTo([kind : NodeKinds, text : TextLengths, parent : 0..MaxNodes],
                              MaxNodes)] : PreOrder(pg.nodes)}

Subtree(nodes, i) == {i} \cup {k \in DOMAIN nodes : IsAncestor(nodes, i, k)}

RECURSIVE SumText(_, _)
SumText(nodes, S) ==
    IF S = {} THEN 0
    ELSE LET k == CHOOSE x \in S : TRUE IN nodes[k].text + SumText(nodes, S \ {k})

\* len(get_text(separator=" ", strip=True)) over the elements S: the strings
\* joined by one space each.
_visible_text_length(nodes, S) ==
    LET strings == {k \in S : nodes[k].text > 0}
    IN IF strings = {} THEN 0 ELSE SumText(nodes, strings) + Cardinality(strings) - 1

\* soup.find_all(...) for one kind: the indices in document order.
find_all(pg, kind) ==
    SelectSeq([i \in DOMAIN pg.nodes |-> i], LAMBDA i : pg.nodes[i].kind = kind)

\* The element with the greatest visible text length, 0 (None) when there is
\* none or none has text.
_pick_largest_text(pg, elements) ==
    LET st[i \in 0..Len(elements)] ==
            IF i = 0 THEN [best |-> 0, best_length |-> 0]
            ELSE LET length == _visible_text_length(pg.nodes,
                                                    Subtree(pg.nodes, elements[i]))
                 IN IF length > st[i - 1].best_length
                    THEN [best |-> elements[i], best_length |-> length]
                    ELSE st[i - 1]
    IN st[Len(elements)].best

\* while current.parent is not None: depth += 1 (the body and the root count).
_node_depth(pg, i) == Cardinality({j \in DOMAIN pg.nodes : IsAncestor(pg.nodes, j, i)}) + 2

\* The elements that element.decompose() removes from the copy of the body.
Decomposed(pg) ==
    {i \in DOMAIN pg.nodes :
        \/ pg.nodes[i].kind = "nav"
        \/ \E j \in DOMAIN pg.nodes : pg.nodes[j].kind = "nav" /\ IsAncestor(pg.nodes, j, i)}

_structured_layout_candidate(pg) ==
    IF ~ pg.body THEN 0
    ELSE LET kept == DOMAIN pg.nodes \ Decomposed(pg)
             elements == SelectSeq([i \in DOMAIN pg.nodes |-> i], LAMBDA i : i \in kept)
             st[i \in 0..Len(elements)] ==
                 IF i = 0 THEN [best |-> 0, best_depth |-> -1, best_length |-> 0]
                 ELSE LET element == elements[i]
                          inside == Subtree(pg.nodes, element) \cap kept
                          length == _visible_text_length(pg.nodes, inside)
                          depth == _node_depth(pg, element)
                      IN IF ~ \E h \in inside \ {element} : pg.nodes[h].kind = "h1"
                         THEN st[i - 1]
                         ELSE IF length = 0 THEN st[i - 1]
                         ELSE IF \/ depth > st[i - 1].best_depth
                                 \/ (depth = st[i - 1].best_depth
                                     /\ length > st[i - 1].best_length)
                              THEN [best |-> element, best_depth |-> depth,
                                    best_length |-> length]
                              ELSE st[i - 1]
         IN st[Len(elements)].best

\* What extract_content_root returns: the step that chose and the element
\* (0: the body or the root itself).
Root(step, node) == [step |-> step, node |-> node]

\* A variant of extract_content_root that tries the article elements before
\* the main landmarks.
extract_content_root_ArticleFirst(pg) ==
    LET main == _pick_largest_text(pg, find_all(pg, "main"))
        role_main == _pick_largest_text(pg, find_all(pg, "role_main"))
        article == _pick_largest_text(pg, find_all(pg, "article"))
        article_like == _pick_largest_text(pg, find_all(pg, "itemtype"))
        structured_candidate == _structured_layout_candidate(pg)
    IN IF article # 0 THEN Root("article", article)
       ELSE IF main # 0 THEN Root("main", main)
       ELSE IF role_main # 0 THEN Root("role_main", role_main)
       ELSE IF article_like # 0 THEN Root("itemtype", article_like)
       ELSE IF structured_candidate # 0 THEN Root("structured", structured_candidate)
       ELSE IF pg.body THEN Root("body", 0) ELSE Root("root", 0)

extract_content_root(pg) ==
    LET main == _pick_largest_text(pg, find_all(pg, "main"))
        role_main == _pick_largest_text(pg, find_all(pg, "role_main"))
        article == _pick_largest_text(pg, find_all(pg, "article"))
        article_like == _pick_largest_text(pg, find_all(pg, "itemtype"))
        structured_candidate == _structured_layout_candidate(pg)
    IN IF main # 0 THEN Root("main", main)
       ELSE IF role_main # 0 THEN Root("role_main", role_main)
       ELSE IF article # 0 THEN Root("article", article)
       ELSE IF article_like # 0 THEN Root("itemtype", article_like)
       ELSE IF structured_candidate # 0 THEN Root("structured", structured_candidate)
       ELSE IF pg.body THEN Root("body", 0) ELSE Root("root", 0)

ExtractContentRoot ==
    /\ applied = ""
    /\ applied' = "extract_content_root"
    /\ result' = extract_content_root(arg)
    /\ UNCHANGED <<arg, varsList, varsOpt, varsPipe, varsGallery>>

InitRoot ==
    /\ ParkList /\ ParkOpt /\ ParkPipe /\ ParkGallery
    /\ applied = ""
    /\ arg \in ParsedPages
    /\ result = 0

NextRoot == ExtractContentRoot

SpecRoot == InitRoot /\ [][NextRoot]_vars

\* The visible text length of element i of the page in hand.
VisLen(i) == _visible_text_length(arg.nodes, Subtree(arg.nodes, i))

OfKind(kind) == {i \in DOMAIN arg.nodes : arg.nodes[i].kind = kind}

\* The landmark steps of the cascade, in order.
LandmarkSteps == <<"main", "role_main", "article", "itemtype">>

\* The elements the structural heuristic considers: in the body, outside the
\* page chrome, holding a heading, with visible text outside the chrome.
StructuralCandidates ==
    {i \in DOMAIN arg.nodes :
        /\ arg.body
        /\ i \notin Decomposed(arg)
        /\ \E h \in Subtree(arg.nodes, i) \ ({i} \cup Decomposed(arg)) :
               arg.nodes[h].kind = "h1"
        /\ _visible_text_length(arg.nodes, Subtree(arg.nodes, i) \ Decomposed(arg)) > 0}

\* The result is the choice of the first step that applies, and within a
\* landmark step the candidate with the greatest visible text length.
ChosenByFirstStep(Applies(_)) ==
    /\ \A s \in DOMAIN LandmarkSteps :
           (Applies(LandmarkSteps[s]) /\ \A t \in 1..(s - 1) : ~ Applies(LandmarkSteps[t]))
           => /\ result.step = LandmarkSteps[s]
              /\ result.node \in OfKind(LandmarkSteps[s])
              /\ \A j \in OfKind(LandmarkSteps[s]) : VisLen(j) <= VisLen(result.node)
    /\ (\A s \in DOMAIN LandmarkSteps : ~ Applies(LandmarkSteps[s]))
           => IF StructuralCandidates # {}
              THEN result.step = "structured" /\ result.node \in StructuralCandidates
              ELSE result = Root(IF arg.body THEN "body" ELSE "root", 0)

HasElement(kind) == OfKind(kind) # {}
HasElementWithText(kind) == \E i \in OfKind(kind) : VisLen(i) > 0

Child(kind, of) == [kind |-> kind, of |-> of]

Repeat(x, n) == [i \in 1..n |-> x]
Opt(b, x) == IF b THEN <<x>> ELSE <<>>

\* How a page is laid out: a title line or not, header paragraphs before and
\* after the anchor, the anchor or not, the story, and after it the
\* rest-link and the footer or not.
Layouts ==
    [title : BOOLEAN, lead : 0..MaxHeaders, anchor : BOOLEAN, after : 0..MaxHeaders,
     rest_link : BOOLEAN, footer : BOOLEAN]

Children(layout, of) ==
    Opt(layout.title, Child("title", of)) \o Repeat(Child("header", of), layout.lead)
    \o Opt(layout.anchor, Child("anchor", of)) \o Repeat(Child("header", of), layout.after)
    \o <<Child("story", of)>>
    \o Opt(layout.rest_link, Child("rest_link", of)) \o Opt(layout.footer, Child("footer", of))

HasKind(children, kind) == \E i \in DOMAIN children : children[i].kind = kind

\* child.get_text(" ", strip=True) is non-empty
HasText(child) == child.kind # "anchor"

\* Fetcher._is_chrome_text
_is_chrome_text(child) == child.kind = "header"

\* Fetcher._find_rest_url: the first anchor whose href holds "rest=1"
_find_rest_url(children) == IF HasKind(children, "rest_link") THEN "rest" ELSE None

\* Fetcher._extract_content_block: None (<<>> with found = FALSE) without the
\* textstart anchor; else the children from the first one with text that is
\* not chrome, or the whole parent when there is none.
_extract_content_block(children) ==
    IF ~ HasKind(children, "anchor") THEN [found |-> FALSE, children |-> <<>>]
    ELSE LET starts == {i \in DOMAIN children :
                            HasText(children[i]) /\ ~ _is_chrome_text(children[i])}
         IN IF starts = {} THEN [found |-> TRUE, children |-> children]
            ELSE LET first == CHOOSE i \in starts : \A j \in starts : i <= j
                 IN [found |-> TRUE,
                     children |-> SubSeq(children, first, Len(children))]

\* Fetcher._fetch_and_stitch with _build_synthetic_html: which URLs were
\* fetched, and the blocks put into <div id="content">, each block a list of
\* children.
_fetch_and_stitch(primary, rest) ==
    LET rest_url == _find_rest_url(primary)
        primary_block == _extract_content_block(primary)
        rest_block == _extract_content_block(rest)
    IN [fetched |-> <<"primary">> \o Opt(rest_url # None, "rest"),
        content |-> Opt(primary_block.found, primary_block.children)
                    \o Opt(rest_url # None /\ rest_block.found, rest_block.children)]

\* Transformer._segment_blocks of a child div of the content: its children
\* that are block tags with text, one block each.
_segment_blocks(segment) ==
    LET blocks[i \in 0..Len(segment)] ==
            IF i = 0 THEN <<>>
            ELSE IF HasText(segment[i]) THEN Append(blocks[i - 1], <<segment[i]>>)
                 ELSE blocks[i - 1]
    IN blocks[Len(segment)]

\* Transformer._segment_blocks of the content itself: its child divs that
\* have text, each one block.
ContentBlocks(content) ==
    SelectSeq(content, LAMBDA div : \E i \in DOMAIN div : HasText(div[i]))

\* for index, block in enumerate(blocks[:12])
HeaderScan == 12

\* Transformer._header_end_index, counting from 1 (0: no marker).
_header_end_index(blocks) ==
    LET marked == {i \in DOMAIN blocks : i <= HeaderScan /\ HasKind(blocks[i], "header")}
    IN IF marked = {} THEN 0 ELSE CHOOSE i \in marked : \A j \in marked : j <= i

\* Transformer._segment_end_index, counting from 1 (0: no end marker): the
\* first block with an end marker decides.
_segment_end_index(blocks, is_first) ==
    LET marked == {i \in DOMAIN blocks :
                      HasKind(blocks[i], "rest_link") \/ HasKind(blocks[i], "footer")}
    IN IF marked = {} THEN 0
       ELSE LET index == CHOOSE i \in marked : \A j \in marked : i <= j
            IN IF HasKind(blocks[index], "rest_link")
               THEN (IF is_first THEN index ELSE 0)
               ELSE index

\* Transformer._extract_segment: the blocks after the header up to the end
\* marker; <<>> stands for None.
_extract_segment(blocks, is_first) ==
    LET start == _header_end_index(blocks) + 1
        found == _segment_end_index(blocks, is_first)
        end == IF found = 0 THEN Len(blocks) + 1 ELSE found
    IN IF start >= end THEN <<>> ELSE SubSeq(blocks, start, end - 1)

RECURSIVE Flatten(_)
Flatten(seqs) == IF seqs = <<>> THEN <<>> ELSE Head(seqs) \o Flatten(Tail(seqs))

\* html_to_markdown: the text-bearing children, in order.
Rendered(children) == SelectSeq(children, HasText)

\* The EroticStories Transformer._convert_html_to_markdown on the stitched
\* document.
eroticstories_convert_html_to_markdown(content) ==
    LET with_anchor == SelectSeq(content, LAMBDA div : HasKind(div, "anchor"))
        cleaned ==
            IF with_anchor = <<>>
            THEN <<Flatten(_extract_segment(ContentBlocks(content), TRUE))>>
            ELSE [i \in DOMAIN with_anchor |->
                     Flatten(_extract_segment(_segment_blocks(with_anchor[i]), i = 1))]
        cleaned_segments == SelectSeq(cleaned, LAMBDA seg : seg # <<>>)
    IN IF cleaned_segments = <<>>
       THEN Rendered(Flatten(content))     \* the generic converter, on the body
       ELSE Rendered(Flatten(cleaned_segments))

FetchAndStitch ==
    /\ applied = ""
    /\ applied' = "_fetch_and_stitch"
    /\ LET synthetic_html == _fetch_and_stitch(Children(arg.primary, "primary"),
                                               Children(arg.rest, "rest"))
       IN result' = [fetched |-> synthetic_html.fetched,
                     content |-> synthetic_html.content, markdown |-> <<>>]
    /\ UNCHANGED <<arg, varsList, varsOpt, varsPipe, varsGallery>>

StitchedToMarkdown ==
    /\ applied = "_fetch_and_stitch"
    /\ applied' = "_convert_html_to_markdown"
    /\ result' = [result EXCEPT
                     !.markdown = eroticstories_convert_html_to_markdown(result.content)]
    /\ UNCHANGED <<arg, varsList, varsOpt, varsPipe, varsGallery>>

InitStitch ==
    /\ ParkList /\ ParkOpt /\ ParkPipe /\ ParkGallery
    /\ applied = ""
    /\ arg \in [primary : Layouts, rest : Layouts]
    /\ result = [fetched |-> <<>>, content |-> <<>>, markdown |-> <<>>]

NextStitch == FetchAndStitch \/ StitchedToMarkdown

SpecStitch == InitStitch /\ [][NextStitch]_vars

Boilerplate == {"header", "rest_link", "footer"}

\* C16: a primary page with its story block ending in a rest-link, stitched
\* with its continuation page and rendered, gives the primary page's story
\* text and then the continuation's, without any boilerplate of either page;
\* just the one continuation page is fetched.
C16_StitchedInOrderWithoutBoilerplate ==
    (/\ applied = "_convert_html_to_markdown"
     /\ arg.primary.anchor /\ arg.primary.rest_link
     /\ arg.rest.anchor /\ ~ arg.rest.rest_link)
    => /\ result.fetched = <<"primary", "rest">>
       /\ SelectSeq(result.markdown, LAMBDA c : c.kind = "story")
              = <<Child("story", "primary"), Child("story", "rest")>>
       /\ \A i \in DOMAIN result.markdown : result.markdown[i].kind \notin Boilerplate

\* The same for pages in which text other than chrome precedes the anchor.
StitchedWhenAnchorKept ==
    (arg.primary.title /\ arg.rest.title) => C16_StitchedInOrderWithoutBoilerplate

\* ------------------------------------- DeviantArt: the metadata.json sidecar
\* Here arg is the html directory (per file number NoFile or what the page
\* holds) and result is metadata.json: [exists, entries], entries a function
\* from deviation id to entry.  A page holds: the id of the open deviation in
\* its embedded state (None: no state, or none open), whether og:title gives
\* "Title by author on DeviantArt", whether the state's deviation has a title
\* and an author name, complete stats, awarded badges, a publishedTime.
DeviationPages ==
    [deviation_id : {None, "d1", "d2"}, og_title : BOOLEAN, state_title : BOOLEAN,
     stats : BOOLEAN, badges : BOOLEAN, published_time : BOOLEAN]

\* An html file that is not there.
NoFile == [absent |-> TRUE]
IsAbsent(file) == "absent" \in DOMAIN file

\* A key that an entry does not have.
Absent == "<absent>"

MetadataKeys ==
    {"deviation_id", "saveto", "tags", "title", "author", "last_updated",
     "favorites", "comments", "views", "badges", "published_time"}

\* Transformer._extract_metadata: title and author from og:title, replaced by
\* the state's when it has them; None when neither has.
ExtractedTitle(pg) == IF pg.state_title \/ pg.og_title THEN "Title" ELSE None
ExtractedAuthor(pg) == IF pg.state_title \/ pg.og_title THEN "author" ELSE None

\* The payload that _write_metadata builds for one html file.
Payload(pg, file) ==
    [key \in MetadataKeys |->
        CASE key = "deviation_id"   -> pg.deviation_id
          [] key = "saveto"         -> IF file = 1 THEN "html/slug-001.html"
                                       ELSE "html/slug-00n.html"
          [] key = "tags"           -> "[...]"
          [] key = "title"          -> ExtractedTitle(pg)
          [] key = "author"         -> ExtractedAuthor(pg)
          [] key = "last_updated"   -> "now"
          [] key \in {"favorites", "comments", "views"}
                                    -> IF pg.stats THEN "int" ELSE Absent
          [] key = "badges"         -> IF pg.badges THEN "{...}" ELSE Absent
          [] key = "published_time" -> IF pg.published_time THEN "time" ELSE Absent]

HtmlDirs == [1..MaxUrls -> DeviationPages \cup {NoFile}]

\* _write_metadata: the entries built from the html files that are there, in
\* sorted order (a later file with the same id replaces the earlier entry).
RECURSIVE MetadataById(_, _)
MetadataById(dir, n) ==
    IF n = 0 THEN <<>>
    ELSE LET before == MetadataById(dir, n - 1)
         IN IF IsAbsent(dir[n]) THEN before
            ELSE IF dir[n].deviation_id = None THEN before
            ELSE [id \in DOMAIN before \cup {dir[n].deviation_id} |->
                     IF id = dir[n].deviation_id THEN Payload(dir[n], n) ELSE before[id]]

\* What _write_metadata leaves in metadata.json: nothing new without html
\* files, else the freshly built entries.
WrittenMetadata(dir, old) ==
    IF \A n \in DOMAIN dir : IsAbsent(dir[n]) THEN old
    ELSE [exists |-> TRUE, entries |-> MetadataById(dir, MaxUrls)]

\* One transform run, as far as metadata.json goes.
WriteMetadata ==
    /\ applied' = "_write_metadata"
    /\ result' = WrittenMetadata(arg, result)
    /\ UNCHANGED <<arg, varsList, varsOpt, varsPipe, varsGallery>>

\* Between runs an html file goes away.
RemoveHtml ==
    /\ \E n \in DOMAIN arg :
           /\ ~ IsAbsent(arg[n])
           /\ arg' = [arg EXCEPT ![n] = NoFile]
    /\ applied' = "remove"
    /\ UNCHANGED <<result, varsList, varsOpt, varsPipe, varsGallery>>

InitMetadata ==
    /\ ParkList /\ ParkOpt /\ ParkPipe /\ ParkGallery
    /\ applied = ""
    /\ arg \in HtmlDirs
    /\ result = [exists |-> FALSE, entries |-> <<>>]

NextMetadata == WriteMetadata \/ RemoveHtml

SpecMetadata == InitMetadata /\ [][NextMetadata]_vars

\* The ids that the html files in the directory carry.
IdsInHtml == {arg[n].deviation_id : n \in {m \in DOMAIN arg : ~ IsAbsent(arg[m])}} \ {None}

\* C17: no step removes an entry from metadata.json, and a transform run
\* leaves the entries of the ids that none of its html files carries as they
\* were.
C17_MetadataMerged ==
    [][\A id \in DOMAIN result.entries :
           /\ id \in DOMAIN result'.entries
           /\ id \notin IdsInHtml => result'.entries[id] = result.entries[id]]_vars

\* C18: no entry of metadata.json has a key whose value is null.
C18_NoNullPlaceholders ==
    applied = "_write_metadata" =>
        \A id \in DOMAIN result.entries :
            \A key \in MetadataKeys : result.entries[id][key] # None

\* The same for the keys other than title and author.
NoNullBesidesTitleAndAuthor ==
    applied = "_write_metadata" =>
        \A id \in DOMAIN result.entries :
            \A key \in MetadataKeys \ {"title", "author"} : result.entries[id][key] # None

\* --------------------------------------------- the delay before a request
\* Here arg is one invocation's workload: the fetch agent, the number of
\* chapters in the download list, the requests one chapter takes where the
\* fetcher makes several (Literotica's pages, EroticStories' continuation)
\* and the number of Patreon API pages; result is [log, idx]: the sleeps and
\* requests made so far, in order, and the chapter the fetch loop is at.
FetchAgents ==
    {"auto", "ao3_fetcher", "bdsmlibrary_fetcher", "deviantart_fetcher",
     "eroticstories_fetcher", "fanfiction_fetcher", "inkitt_fetcher",
     "literotica_fetcher", "mcstories_fetcher", "patreon_fetcher", "wattpad_fetcher"}

Workloads ==
    [fetcher : FetchAgents, chapters : 1..MaxUrls, requests : 1..MaxFetches,
     api_pages : 1..MaxDiscovery]

\* http.request: the jitter sleep unless delay is off, then the request.
request(log, what, delay) == log \o (IF delay THEN <<"sleep">> ELSE <<>>) \o <<what>>

\* Fetcher._fetch_bytes: http.fetch_bytes(url), which delays; Patreon's
\* override calls http.get(url, delay=False).
_fetch_bytes(fetch_agent, log, what) ==
    IF fetch_agent = "patreon_fetcher" THEN request(log, what, FALSE)
    ELSE request(log, what, TRUE)

\* Patreon's Fetcher._fetch_json
_fetch_json(log) == request(log, "api", FALSE)

RECURSIVE Times(_, _, _)
Times(n, Op(_), log) == IF n = 0 THEN log ELSE Times(n - 1, Op, Op(log))

\* The requests one chapter of the fetch loop makes.
RequestsPerChapter(w) ==
    IF w.fetcher \in {"literotica_fetcher", "eroticstories_fetcher"} THEN w.requests ELSE 1

\* list_phase: the listing page through _fetch_text and, for Patreon, the
\* pages of the collection API through _fetch_json.  (Further listing pages
\* of other fetchers go through _fetch_text as well.)
DelayListPhase ==
    /\ applied = ""
    /\ applied' = "list_phase"
    /\ LET listed_log == _fetch_bytes(arg.fetcher, result.log, "listing")
       IN result' = [log |-> IF arg.fetcher = "patreon_fetcher"
                             THEN Times(arg.api_pages, _fetch_json, listed_log)
                             ELSE listed_log,
                     idx |-> 1]
    /\ UNCHANGED <<arg, varsList, varsOpt, varsPipe, varsGallery>>

\* One turn of the fetch loop (for AO3, the one EPUB download).
DelayFetchChapter ==
    /\ applied \in {"list_phase", "fetch_phase"}
    /\ result.idx <= arg.chapters
    /\ applied' = "fetch_phase"
    /\ LET fetch(log) == _fetch_bytes(arg.fetcher, log, "content")
       IN result' = [log |-> Times(RequestsPerChapter(arg), fetch, result.log),
                     idx |-> IF arg.fetcher = "ao3_fetcher" THEN arg.chapters + 1
                             ELSE result.idx + 1]
    /\ UNCHANGED <<arg, varsList, varsOpt, varsPipe, varsGallery>>

DelayFetchReturn ==
    /\ applied = "fetch_phase"
    /\ result.idx > arg.chapters
    /\ applied' = "fetched"
    /\ UNCHANGED <<arg, result, varsList, varsOpt, varsPipe, varsGallery>>

InitDelay ==
    /\ ParkList /\ ParkOpt /\ ParkPipe /\ ParkGallery
    /\ applied = ""
    /\ arg \in Workloads
    /\ result = [log |-> <<>>, idx |-> 1]

NextDelay == DelayListPhase \/ DelayFetchChapter \/ DelayFetchReturn

SpecDelay == InitDelay /\ [][NextDelay]_vars

Delayed(i) == i > 1 /\ result.log[i - 1] = "sleep"

\* C19: when the fetch phase has returned, every request for chapter content
\* was preceded by the jitter sleep, and a request that was not is an API
\* pagination call of the discovery.
C19_DelayBeforeContent ==
    applied = "fetched" =>
        \A i \in DOMAIN result.log :
            /\ result.log[i] = "content" => Delayed(i)
            /\ (result.log[i] # "sleep" /\ ~ Delayed(i)) => result.log[i] = "api"

\* The same for the fetchers other than Patreon's.
DelayBeforeContentButPatreon ==
    arg.fetcher # "patreon_fetcher" => C19_DelayBeforeContent

\* ------------------------------- site transformers and the generic fallback
\* A page, as far as the choice between the site-specific and the generic
\* conversion goes: [structure, heading, main, outside].  structure says
\* whether the element the site transformer looks for (AO3: none, it renders
\* the body; BDSMLibrary: <pre>; EroticStories: div#content with story
\* blocks; FanFiction: #storytext; Literotica: pageText strings; Patreon: the
\* post content of __NEXT_DATA__; Wattpad: div.panel-reading; DeviantArt: the
\* "Literature Text" section) is "absent", there but "empty" (without text),
\* or there with "content"; heading whether the site's heading source has
\* text; main whether the page has a <main> element with text (elsewhere);
\* outside whether the body has text outside both.
SitePages ==
    [structure : {"absent", "empty", "content"}, heading : BOOLEAN, main : BOOLEAN,
     outside : BOOLEAN]

SiteTransformers ==
    {"ao3_transformer", "bdsmlibrary_transformer", "eroticstories_transformer",
     "fanfiction_transformer", "literotica_transformer", "patreon_transformer",
     "wattpad_transformer", "deviantart_transformer"}

\* Markdown, as the heading line (or not) and the parts of the page rendered.
Markdown(heading, pieces) == [heading |-> heading, pieces |-> pieces]

BodyPieces(pg) ==
    (IF pg.outside THEN {"outside"} ELSE {}) \cup (IF pg.main THEN {"main"} ELSE {})
    \cup (IF pg.structure = "content" THEN {"structure"} ELSE {})

\* auto.Transformer._convert_html_to_markdown: the content root rendered, the
\* <main> element when it has text, else the body.
auto_markdown(pg) ==
    Markdown(FALSE, IF pg.main THEN {"main"} ELSE BodyPieces(pg))

\* The structure rendered by itself.
OwnPieces(pg) == IF pg.structure = "content" THEN {"structure"} ELSE {}

ao3_markdown(pg) == Markdown(pg.heading, BodyPieces(pg))

bdsmlibrary_markdown(pg) ==
    IF pg.structure = "absent" THEN auto_markdown(pg)
    ELSE Markdown(pg.heading, OwnPieces(pg))

eroticstories_markdown(pg) ==
    IF pg.structure \in {"absent", "empty"} THEN auto_markdown(pg)
    ELSE Markdown(FALSE, OwnPieces(pg))

fanfiction_markdown(pg) ==
    IF pg.structure = "absent" THEN auto_markdown(pg)
    ELSE Markdown(pg.heading, OwnPieces(pg))

literotica_markdown(pg) ==
    IF pg.structure \in {"absent", "empty"} THEN auto_markdown(pg)
    ELSE Markdown(pg.heading, OwnPieces(pg))

patreon_markdown(pg) ==
    IF pg.structure = "absent" THEN auto_markdown(pg)
    ELSE Markdown(pg.heading, OwnPieces(pg))

wattpad_markdown(pg) ==
    IF pg.structure = "absent" THEN Markdown(pg.heading, auto_markdown(pg).pieces)
    ELSE Markdown(pg.heading, OwnPieces(pg))

deviantart_markdown(pg) ==
    IF pg.structure = "absent" THEN auto_markdown(pg)
    ELSE Markdown(pg.heading, OwnPieces(pg))

ConvertHtmlToMarkdown ==
    /\ applied = ""
    /\ applied' = "_convert_html_to_markdown"
    /\ result' =
         CASE arg.transformer = "ao3_transformer" -> ao3_markdown(arg.page)
           [] arg.transformer = "bdsmlibrary_transformer" -> bdsmlibrary_markdown(arg.page)
           [] arg.transformer = "eroticstories_transformer" -> eroticstories_markdown(arg.page)
           [] arg.transformer = "fanfiction_transformer" -> fanfiction_markdown(arg.page)
           [] arg.transformer = "literotica_transformer" -> literotica_markdown(arg.page)
           [] arg.transformer = "patreon_transformer" -> patreon_markdown(arg.page)
           [] arg.transformer = "wattpad_transformer" -> wattpad_markdown(arg.page)
           [] arg.transformer = "deviantart_transformer" -> deviantart_markdown(arg.page)
    /\ UNCHANGED <<arg, varsList, varsOpt, varsPipe, varsGallery>>

InitFallback ==
    /\ ParkList /\ ParkOpt /\ ParkPipe /\ ParkGallery
    /\ applied = ""
    /\ arg \in [transformer : SiteTransformers, page : SitePages]
    /\ result = Markdown(FALSE, {})

NextFallback == ConvertHtmlToMarkdown

SpecFallback == InitFallback /\ [][NextFallback]_vars

\* C20: for a page whose site-specific structure is absent or without
\* content, the site transformer's result is the generic converter's; and a
\* page whose body has text never gives empty Markdown.
C20_FallbackToGeneric ==
    applied = "_convert_html_to_markdown" =>
        /\ arg.page.structure \in {"absent", "empty"} => result = auto_markdown(arg.page)
        /\ BodyPieces(arg.page) # {} => result # Markdown(FALSE, {})

\* The same for EroticStories and Literotica, whose transformers fall back in
\* both cases.
FallbackOfEroticStoriesAndLiterotica ==
    arg.transformer \in {"eroticstories_transformer", "literotica_transformer"}
        => C20_FallbackToGeneric

\* With the structure absent altogether, every transformer but AO3's and
\* Wattpad's gives the generic result.
FallbackWhenAbsent ==
    (/\ applied = "_convert_html_to_markdown"
     /\ arg.page.structure = "absent"
     /\ arg.transformer \notin {"ao3_transformer", "wattpad_transformer"})
    => result = auto_markdown(arg.page)

\* ------------------------------------------------------ AO3 EPUB discovery
\* Here arg is [url, page]: the work's URL and its page, whose entries are the
\* anchors in document order (flag: the anchor matches the download selector
\* "li.download a[href*='epub']"); result is [stored, urls, warns, raised,
\* route]: the lines of download_urls.txt, the list the running phase holds,
\* the warnings emitted, whether a phase raised, and the route the fetch phase
\* took.  A fetch phase may also start from a list stored by an earlier run.
EpubUrl == MkUrl("https", "h", <<"downloads", "w.epub">>, FALSE)
StoredLists == {<<>>, <<EpubUrl>>, <<EpubUrl, EpubUrl>>}

\* An anchor the download selector matches (its href contains "epub").
IsDownloadLink(anchor) == anchor.flag /\ anchor.href.kind # "blank"

DownloadLinks(pg) == SelectSeq(pg.entries, IsDownloadLink)

\* ao3 Fetcher._select_urls: select_one takes the first matching anchor; no
\* match raises ValueError.
ao3_select_urls(base_url, pg) ==
    LET matches == DownloadLinks(pg)
    IN IF matches = <<>> THEN SelRaised
       ELSE Sel(<<urljoin(base_url, matches[1].href)>>, <<>>)

\* list_phase on the work page: _select_urls, then _write_download_list.
Ao3ListPhase ==
    /\ applied = ""
    /\ applied' = "list_phase"
    /\ LET r == ao3_select_urls(arg.url, arg.page)
       IN result' = IF r.raised THEN [result EXCEPT !.raised = TRUE]
                    ELSE [result EXCEPT !.stored = r.urls, !.urls = r.urls]
    /\ UNCHANGED <<arg, varsList, varsOpt, varsPipe, varsGallery>>

\* Entry of the AO3 fetch_phase: load the list; unless it holds exactly one
\* URL, warn and hand over to the generic fetch_phase.
Ao3FetchPhase ==
    /\ applied \in {"", "list_phase"}
    /\ ~ result.raised
    /\ applied' = IF applied = "" THEN "fetch_phase_only" ELSE "fetch_phase"
    /\ LET loaded == result.stored
       IN result' = IF Len(loaded) # 1
                    THEN [result EXCEPT !.urls = loaded, !.route = "auto",
                                        !.warns = Append(@, "ao3-fallback")]
                    ELSE [result EXCEPT !.urls = loaded, !.route = "epub"]
    /\ UNCHANGED <<arg, varsList, varsOpt, varsPipe, varsGallery>>

InitAo3 ==
    /\ ParkList /\ ParkOpt /\ ParkPipe /\ ParkGallery
    /\ applied = ""
    /\ arg \in [url : StartUrls, page : Pages({TRUE}, BOOLEAN)]
    /\ result \in [stored : StoredLists, urls : {<<>>}, warns : {<<>>},
                   raised : {FALSE}, route : {"none"}]

NextAo3 == Ao3ListPhase \/ Ao3FetchPhase

SpecAo3 == InitAo3 /\ [][NextAo3]_vars

\* C21: when the work page has no EPUB download link, or more than one, the
\* list phase does not raise and returns what the generic link scraping of
\* that page returns, and by the end of the fetch phase a warning was emitted.
C21_Ao3FallsBackToGeneric ==
    (applied \in {"list_phase", "fetch_phase"} /\ Len(DownloadLinks(arg.page)) # 1) =>
        /\ ~ result.raised
        /\ result.urls = _select_urls(arg.url, arg.page)
        /\ applied = "fetch_phase" => result.warns # <<>>

\* What the fetch phase does do: a loaded list that does not hold exactly one
\* URL is fetched the generic way, with a warning.
Ao3FallbackOnLoadedList ==
    applied \in {"fetch_phase", "fetch_phase_only"} =>
        (Len(result.urls) # 1 <=> (result.route = "auto" /\ result.warns # <<>>))

\* ------------------------------------------------ Patreon metadata inference
\* Here arg is the collection page as its three metadata sources see it:
\* ldjson (the ld+json Collection block, if the page has one), next_data (the
\* bootstrap JSON) and title (the <title> element), each with the name and the
\* author it yields (None when it has none); result is [metadata, consulted]:
\* the dictionary list_phase passes on and the sources it read, in order.
NoMetadata == [some |-> FALSE, name |-> None, author |-> None]
Metadata(name, author) == [some |-> TRUE, name |-> name, author |-> author]

\* _extract_metadata_from_ldjson: the Collection block itself, whatever keys
\* it has; None without such a block.
_extract_metadata_from_ldjson(pg) ==
    IF pg.ldjson.block THEN Metadata(pg.ldjson.name, pg.ldjson.author) ELSE NoMetadata

\* _extract_metadata_from_next_data: `result or None`.
_extract_metadata_from_next_data(pg) ==
    IF Truthy(pg.next_data.name) \/ Truthy(pg.next_data.author)
    THEN Metadata(pg.next_data.name, pg.next_data.author) ELSE NoMetadata

\* _extract_metadata_from_title: the first part of the title as the name, the
\* part after "Collection from" as the author; `result or None`.
_extract_metadata_from_title(pg) ==
    IF Truthy(pg.title.name) \/ Truthy(pg.title.author)
    THEN Metadata(pg.title.name, pg.title.author) ELSE NoMetadata

\* {**left, **right}: the keys of right win.
MergeDicts(left, right) ==
    Metadata(IF right.name # None THEN right.name ELSE left.name,
             IF right.author # None THEN right.author ELSE left.author)

\* The metadata lines of Patreon's list_phase.
PatreonMetadata ==
    /\ applied = ""
    /\ applied' = "list_phase"
    /\ LET from_ldjson == _extract_metadata_from_ldjson(arg)
           metadata == IF from_ldjson.some THEN from_ldjson
                       ELSE _extract_metadata_from_next_data(arg)
           fallback == _extract_metadata_from_title(arg)
       IN result' = [metadata |-> IF fallback.some THEN MergeDicts(metadata, fallback)
                                  ELSE metadata,
                     consulted |-> <<"ldjson">>
                                   \o (IF from_ldjson.some THEN <<>> ELSE <<"next_data">>)
                                   \o <<"title">>]
    /\ UNCHANGED <<arg, varsList, varsOpt, varsPipe, varsGallery>>

PatreonPages ==
    { pg \in [ldjson : [block : BOOLEAN, name : {None, "L"}, author : {None, "Lee"}],
              next_data : [name : {None, "N"}, author : {None, "Ned"}],
              title : [name : {None, "T"}, author : {None, "Tom"}]] :
        ~ pg.ldjson.block => (pg.ldjson.name = None /\ pg.ldjson.author = None) }

InitPatreonMetadata ==
    /\ ParkList /\ ParkOpt /\ ParkPipe /\ ParkGallery
    /\ applied = ""
    /\ arg \in PatreonPages
    /\ result = [metadata |-> NoMetadata, consulted |-> <<>>]

NextPatreonMetadata == PatreonMetadata

SpecPatreonMetadata == InitPatreonMetadata /\ [][NextPatreonMetadata]_vars

Consulted(tier) == \E i \in DOMAIN result.consulted : result.consulted[i] = tier

\* The value of a key from the earliest tier that has it (None if none has).
EarliestValue(key) ==
    LET from_ldjson == _extract_metadata_from_ldjson(arg)
        from_next_data == _extract_metadata_from_next_data(arg)
        from_title == _extract_metadata_from_title(arg)
    IN IF from_ldjson.some /\ from_ldjson[key] # None THEN from_ldjson[key]
       ELSE IF ~ from_ldjson.some /\ from_next_data[key] # None THEN from_next_data[key]
       ELSE from_title[key]

\* C22: the bootstrap JSON is consulted only if the ld+json Collection block
\* produced nothing, the <title> only if both earlier tiers produced nothing,
\* and a name or author of an earlier tier is never replaced by a later tier's.
C22_StrictThreeTierFallback ==
    applied = "list_phase" =>
        /\ Consulted("next_data") => ~ _extract_metadata_from_ldjson(arg).some
        /\ Consulted("title") => (/\ ~ _extract_metadata_from_ldjson(arg).some
                                  /\ ~ _extract_metadata_from_next_data(arg).some)
        /\ \A key \in {"name", "author"} : result.metadata[key] = EarliestValue(key)

\* What does hold: the bootstrap JSON is read only without a Collection block,
\* and a name or author the <title> yields is always the one passed on.
TitleTierWins ==
    applied = "list_phase" =>
        /\ Consulted("next_data") <=> ~ _extract_metadata_from_ldjson(arg).some
        /\ \A key \in {"name", "author"} :
               _extract_metadata_from_title(arg)[key] # None =>
                   result.metadata[key] = _extract_metadata_from_title(arg)[key]

\* ------------------------------------------- claim C23 (over the list model)
\* C23: when the chapter navigation structure (FanFiction's chap_select, the
\* Inkitt chapter dropdown, the Wattpad table of contents) is absent from
\* the listing page, list_phase does not fail and returns exactly what the
\* generic _select_urls returns for the same start URL and page.
C23_AbsentStructureGivesGeneric ==
    (fetcher \in {"fanfiction", "inkitt", "wattpad"} /\ ~ page.present /\ lpc # "start")
    => /\ lpc = "listed"
       /\ listed = _select_urls(download_url, page)

\* The same for the Inkitt and Wattpad fetchers alone.
AbsentStructureGivesGenericButFanFiction ==
    fetcher # "fanfiction" => C23_AbsentStructureGivesGeneric

\* ------------------------------------------------- repeated title inference
\* Here arg is a request without a user-supplied name, the fetch agent, and
\* the listing page as each of two discoveries finds it (the titles it
\* carries); result is [options, runs, after_first]: the options record that
\* list_phase updates in place, the number of discoveries run on it, and the
\* record as the first discovery left it.
MaxRuns == 2

UnnamedUsers == [name : {None, ""}, slug : {None, "my-slug"}, author : {None}]
TitledPages == [title : {None, "A Tale", "!!"}, author : {None}, gallery : {None, "Folder One"}]

\* The options a list phase of the agent leaves, by the update hook it runs.
list_phase_options(fetch_agent, o, pg) ==
    CASE fetch_agent = "auto" -> o
      [] fetch_agent \in {"wattpad", "fanfiction", "ao3"} ->
             postprocess_listing(o, pg.title, pg.author)
      [] fetch_agent = "deviantart_gallery" ->
             _update_options_from_gallery_title(
                 _update_options_from_metadata(o, pg.title, pg.author), pg.gallery, o)
      [] fetch_agent = "mcstories" -> mcstories_postprocess_listing(o, pg.title, pg.author)
      [] OTHER -> _update_options_from_metadata(o, pg.title, pg.author)

\* One discovery on the request.
Discover ==
    /\ applied \in {"", "list_phase"}
    /\ result.runs < MaxRuns
    /\ applied' = "list_phase"
    /\ LET updated == list_phase_options(arg.agent, result.options, arg.pages[result.runs + 1])
       IN result' = [options |-> updated, runs |-> result.runs + 1,
                     after_first |-> IF result.runs = 0 THEN updated ELSE result.after_first]
    /\ UNCHANGED <<arg, varsList, varsOpt, varsPipe, varsGallery>>

InitInfer ==
    /\ ParkList /\ ParkOpt /\ ParkPipe /\ ParkGallery
    /\ applied = ""
    /\ arg \in {a \in [request : UnnamedUsers, parsed : BOOLEAN, agent : Agents,
                       pages : [1..MaxRuns -> TitledPages]] :
                    \A i \in 1..MaxRuns : i > 2 => a.pages[i] = a.pages[2]}
    /\ LET raw == [name |-> arg.request.name, slug |-> arg.request.slug,
                   author |-> arg.request.author, chosen_name |-> None,
                   chosen_slug |-> None, chosen_author |-> None]
           initial == IF arg.parsed THEN parse_cli_args(arg.request) ELSE raw
       IN result = [options |-> initial, runs |-> 0, after_first |-> initial]

NextInfer == Discover

SpecInfer == InitInfer /\ [][NextInfer]_vars

\* The titles one discovery of the agent infers from the page, in the order
\* in which it infers them.
InferredTitles(fetch_agent, pg) ==
    SelectSeq(CASE fetch_agent = "auto" -> <<>>
                [] fetch_agent = "deviantart_gallery" -> <<pg.title, pg.gallery>>
                [] OTHER -> <<pg.title>>,
              Truthy)

\* The first title inferred by the discoveries run so far (None if none).
FirstInferred ==
    LET titles == IF result.runs = 0 THEN <<>>
                  ELSE InferredTitles(arg.agent, arg.pages[1])
                       \o (IF result.runs > 1 THEN InferredTitles(arg.agent, arg.pages[2])
                           ELSE <<>>)
    IN IF titles = <<>> THEN None ELSE titles[1]

\* C24: without a user-supplied name the effective name is the first title
\* that was inferred (a title inferred later in the same discovery or in a
\* repeated discovery does not replace it), and a second discovery on the
\* same page leaves the effective name and the effective slug as they were.
C24_FirstInferredTitleIsKept ==
    /\ Truthy(FirstInferred) => effective_name(result.options) = FirstInferred
    /\ (result.runs = 2 /\ arg.pages[1] = arg.pages[2]) =>
           /\ effective_name(result.options) = effective_name(result.after_first)
           /\ effective_slug(result.options) = effective_slug(result.after_first)

\* The same for every discovery but that of a DeviantArt gallery.
FirstInferredTitleIsKeptButGallery ==
    arg.agent # "deviantart_gallery" => C24_FirstInferredTitleIsKept

\* For every agent: a discovery repeated on the same page changes neither the
\* effective name nor the effective slug.
InferenceIdempotent ==
    (result.runs = 2 /\ arg.pages[1] = arg.pages[2]) =>
        /\ effective_name(result.options) = effective_name(result.after_first)
        /\ effective_slug(result.options) = effective_slug(result.after_first)

\* ------------------------------------------- download_urls.txt as text
\* Here a URL is its text, a sequence of characters, and arg is the ordered
\* list list_phase discovered; result is [content, loaded]: the text of
\* download_urls.txt and the list read back from it.  A discovered URL is
\* never empty and has no leading blank and no line break (urljoin removes
\* them), but an href with a trailing blank keeps it: urljoin(base, "c1 ")
\* ends in a blank.
UrlChars == {"u", "v", " "}
UrlTexts == {t \in SeqsUpTo(UrlChars, 2) : t # <<>> /\ t[1] # " "}

\* str.splitlines on text whose only line break is "\n".
splitlines(content) ==
    LET st[i \in 0..Len(content)] ==
            IF i = 0 THEN [lines |-> <<>>, line |-> <<>>]
            ELSE IF content[i] = "\n"
                 THEN [lines |-> Append(st[i - 1].lines, st[i - 1].line), line |-> <<>>]
                 ELSE [st[i - 1] EXCEPT !.line = Append(@, content[i])]
        fin == st[Len(content)]
    IN IF fin.line = <<>> THEN fin.lines ELSE Append(fin.lines, fin.line)

\* str.strip
RECURSIVE strip(_)
strip(line) ==
    IF line = <<>> THEN line
    ELSE IF line[1] = " " THEN strip(Tail(line))
    ELSE IF line[Len(line)] = " " THEN strip(SubSeq(line, 1, Len(line) - 1))
    ELSE line

\* Fetcher._write_download_list, on the text: f"{url}\n" for each URL.
RECURSIVE write_download_list_text(_)
write_download_list_text(url_seq) ==
    IF url_seq = <<>> THEN <<>>
    ELSE Head(url_seq) \o <<"\n">> \o write_download_list_text(Tail(url_seq))

\* Fetcher._load_download_list, on the text: the stripped non-blank lines.
load_download_list_text(content) ==
    LET lines == splitlines(content)
        stripped == [i \in DOMAIN lines |-> strip(lines[i])]
    IN SelectSeq(stripped, LAMBDA line : line # <<>>)

WriteDownloadList ==
    /\ applied = ""
    /\ applied' = "_write_download_list"
    /\ result' = [result EXCEPT !.content = write_download_list_text(arg)]
    /\ UNCHANGED <<arg, varsList, varsOpt, varsPipe, varsGallery>>

LoadDownloadList ==
    /\ applied = "_write_download_list"
    /\ applied' = "_load_download_list"
    /\ result' = [result EXCEPT !.loaded = load_download_list_text(result.content)]
    /\ UNCHANGED <<arg, varsList, varsOpt, varsPipe, varsGallery>>

InitListFile ==
    /\ ParkList /\ ParkOpt /\ ParkPipe /\ ParkGallery
    /\ applied = ""
    /\ arg \in SeqsUpTo(UrlTexts, MaxUrls)
    /\ result = [content |-> <<>>, loaded |-> <<>>]

NextListFile == WriteDownloadList \/ LoadDownloadList

SpecListFile == InitListFile /\ [][NextListFile]_vars

\* C25: for every ordered list of discovered URLs, _write_download_list
\* followed by _load_download_list yields the same list in the same order,
\* the empty list included.
C25_DownloadListRoundTrip ==
    applied = "_load_download_list" => result.loaded = arg

\* The round trip of a list none of whose URLs ends in a blank.
RoundTripOfStrippedUrls ==
    (applied = "_load_download_list" /\ \A i \in DOMAIN arg : strip(arg[i]) = arg[i])
    => result.loaded = arg

\* ------------------------------------- Patreon collection API pagination
\* Here arg maps each API URL (1 is the collection's api_root) to its
\* response: whether it lists a post id, and the URL links.next names
\* (Missing without one); result is the state of _collect_post_ids:
\* [next_url, data, post_ids, requests]: data is the URL whose response is in
\* hand (Missing at the top of the loop) and requests counts per URL how
\* often it was fetched.  Post ids beyond MaxPostIds and requests beyond the
\* second are not recorded.
MaxApiUrls == 3
MaxPostIds == 3

ApiUrls == 1..MaxApiUrls
ApiResponses == [ApiUrls -> [has_id : BOOLEAN, next : {Missing} \cup ApiUrls]]

\* `while next_url: data = self._fetch_json(next_url)`
CollectFetch ==
    /\ applied \in {"", "_collect_post_ids"}
    /\ result.data = Missing
    /\ result.next_url # Missing
    /\ applied' = "_collect_post_ids"
    /\ result' = [result EXCEPT !.data = result.next_url,
                                !.requests[result.next_url] = IF @ < 2 THEN @ + 1 ELSE @]
    /\ UNCHANGED <<arg, varsList, varsOpt, varsPipe, varsGallery>>

\* The rest of the loop body: extend post_ids, follow links.next.
CollectFollow ==
    /\ applied = "_collect_post_ids"
    /\ result.data # Missing
    /\ LET data == arg[result.data]
       IN result' = [result EXCEPT
                        !.next_url = data.next,
                        !.data = Missing,
                        !.post_ids = IF data.has_id /\ Len(@) < MaxPostIds
                                     THEN Append(@, result.data) ELSE @]
    /\ UNCHANGED <<applied, arg, varsList, varsOpt, varsPipe, varsGallery>>

\* `return post_ids` once next_url is empty.
CollectReturn ==
    /\ applied = "_collect_post_ids"
    /\ result.data = Missing
    /\ result.next_url = Missing
    /\ applied' = "returned"
    /\ UNCHANGED <<arg, result, varsList, varsOpt, varsPipe, varsGallery>>

InitCollect ==
    /\ ParkList /\ ParkOpt /\ ParkPipe /\ ParkGallery
    /\ applied = ""
    /\ arg \in ApiResponses
    /\ result = [next_url |-> 1, data |-> Missing, post_ids |-> <<>>,
                 requests |-> [u \in ApiUrls |-> 0]]

NextCollect == CollectFetch \/ CollectFollow \/ CollectReturn

\* The loop is sequential code: it keeps taking steps while it can.
SpecCollect == InitCollect /\ [][NextCollect]_vars /\ WF_vars(NextCollect)

\* C28: whatever links.next the responses carry, _collect_post_ids returns,
\* and it requests no API URL more than once.
C28_CollectTerminates ==
    /\ <>(applied = "returned")
    /\ [](\A u \in ApiUrls : result.requests[u] <= 1)

\* The URL reached from the api_root by following links.next k times.
RECURSIVE Follow(_)
Follow(k) == IF k = 0 THEN 1
             ELSE IF Follow(k - 1) = Missing THEN Missing ELSE arg[Follow(k - 1)].next

\* When the next links lead from the api_root to a page without one, the
\* loop returns after requesting each page on the way once.
CollectTerminatesOnChains ==
    (Follow(MaxApiUrls) = Missing) =>
        /\ <>(applied = "returned")
        /\ [](\A u \in ApiUrls : result.requests[u] <= 1)

\* ------------------------------------------- Literotica chapter assembly
\* Here arg is one chapter of the download list and its server: the story
\* has pages 1..last, the request for page `failing` (if not Missing) fails
\* with an error other than 404, every page number beyond `last` is answered
\* by `beyond`, and the chapter's html file may exist already; result is
\* [page, content, assembled, written, logged, pc]: the loop's page counter,
\* the answer to the request in hand, the page numbers assembled so far, what
\* was written to the chapter's file (if
\* anything), whether fetch.log got a line, and where the code is.  Page
\* numbers beyond PageCap are not told apart.
PageCap == MaxPageNo + 2

Stories ==
    {s \in [last : 1..MaxPageNo, failing : {Missing} \cup (1..MaxPageNo),
            beyond : {"404", "error", "success"}, exists : BOOLEAN, force_fetch : BOOLEAN] :
        s.failing <= s.last}

\* What _fetch_bytes(page_url) does for a page number of the story.
Answer(story, page_no) ==
    IF page_no > story.last THEN story.beyond
    ELSE IF page_no = story.failing THEN "error"
    ELSE "success"

\* fetch_phase: the chapter's file exists and force_fetch is off: continue.
LiteroticaSkip ==
    /\ applied = ""
    /\ arg.exists /\ ~ arg.force_fetch
    /\ applied' = "fetch_phase"
    /\ result' = [result EXCEPT !.pc = "skipped"]
    /\ UNCHANGED <<arg, varsList, varsOpt, varsPipe, varsGallery>>

\* `content = self._fetch_bytes(page_url)` at the top of `while True:`.
LiteroticaRequest ==
    /\ applied \in {"", "fetch_phase"}
    /\ ~ (arg.exists /\ ~ arg.force_fetch)
    /\ result.pc = "loop"
    /\ applied' = "fetch_phase"
    /\ result' = [result EXCEPT !.content = Answer(arg, result.page), !.pc = "answered"]
    /\ UNCHANGED <<arg, varsList, varsOpt, varsPipe, varsGallery>>

\* The rest of the turn, with what fetch_phase does when the call returns
\* (write the file) or raises (log).
LiteroticaPage ==
    /\ applied = "fetch_phase"
    /\ result.pc = "answered"
    /\ applied' = "fetch_phase"
    /\ LET answer == result.content
       IN result' =
            CASE answer = "success" ->
                     [result EXCEPT
                         !.assembled = IF Len(@) < PageCap THEN Append(@, result.page) ELSE @,
                         !.page = IF @ < PageCap THEN @ + 1 ELSE @,
                         !.content = "", !.pc = "loop"]
              [] answer = "404" /\ result.page > 1 ->
                     [result EXCEPT !.written = [some |-> TRUE, pages |-> result.assembled],
                                    !.pc = "returned"]
              [] OTHER ->
                     [result EXCEPT !.logged = TRUE, !.pc = "raised"]
    /\ UNCHANGED <<arg, varsList, varsOpt, varsPipe, varsGallery>>

InitLiterotica ==
    /\ ParkList /\ ParkOpt /\ ParkPipe /\ ParkGallery
    /\ applied = ""
    /\ arg \in Stories
    /\ result = [page |-> 1, content |-> "", assembled |-> <<>>,
                 written |-> [some |-> FALSE, pages |-> <<>>], logged |-> FALSE,
                 pc |-> "loop"]

NextLiterotica == LiteroticaSkip \/ LiteroticaRequest \/ LiteroticaPage

\* The fetch loop is sequential code: it keeps taking steps while it can.
SpecLiterotica == InitLiterotica /\ [][NextLiterotica]_vars /\ WF_vars(NextLiterotica)

\* The pages 1..n of the story, in order.
AllPages(story) == [k \in 1..story.last |-> k]

\* C29: whatever the server answers for page numbers beyond the last page (a
\* 404, another error, a successful response), the assembly of a chapter
\* stops, and what it writes is the pages 1..n in order, or nothing.
C29_ChapterAssemblyTerminates ==
    /\ <>(result.pc \in {"skipped", "returned", "raised"})
    /\ [](result.written.some => result.written.pages = AllPages(arg))

\* The same for servers that do not answer page numbers beyond the last page
\* with a successful response.
AssemblyTerminatesUnlessEndless ==
    (arg.beyond # "success" \/ arg.failing # Missing \/ (arg.exists /\ ~ arg.force_fetch))
    => C29_ChapterAssemblyTerminates

\* ------------------------------------------ Patreon Markdown file names
\* Here arg is the html directory of one transform run: the files in sorted
\* order, each with the title of its post (the text before "Chapter N" /
\* "Part M", and the two numbers, Missing where the title has none; no title
\* at all when `titled` is off) and whether its content converts; result is
\* [idx, files, generated, overwritten]: the loop index, the Markdown
\* directory (name -> the html file it was rendered from), the returned list
\* and whether a file written in this run was written again.
PostTitles ==
    {t \in [titled : BOOLEAN, prefix : {"", "Tale"}, chapter : {Missing, 1, 2},
            part : {Missing, 1}] :
        ~ t.titled => (t.prefix = "" /\ t.chapter = Missing /\ t.part = Missing)}

PostFiles == [title : PostTitles, converts : BOOLEAN]

\* _prefix_slug: the slug of what precedes "Chapter N" / "Part M", if anything.
_prefix_slug(title) ==
    IF (title.chapter = Missing /\ title.part = Missing) \/ title.prefix = ""
    THEN None ELSE slugify(title.prefix)

\* _derive_basename; a name is <<base, number>> for f"{base}-{number:03d}"
\* and <<base, chapter, part>> for f"{base}-{chapter:03d}-{part}".
_derive_basename(title, index, slug_value) ==
    IF ~ title.titled THEN <<slug_value, index>>
    ELSE LET base == Or(_prefix_slug(title), slug_value)
         IN IF title.chapter # Missing
            THEN IF title.part # Missing THEN <<base, title.chapter, title.part>>
                 ELSE <<base, title.chapter>>
            ELSE IF title.part # Missing THEN <<base, title.part>>
            ELSE <<slug_value, index>>

\* One iteration of the loop of the Patreon transform_phase.
PatreonTransformItem ==
    /\ applied \in {"", "transform_phase"}
    /\ result.idx <= Len(arg)
    /\ applied' = "transform_phase"
    /\ LET html_file == arg[result.idx]
           basename == _derive_basename(html_file.title, result.idx, "story")
       IN result' =
            IF html_file.converts
            THEN [idx |-> result.idx + 1,
                  files |-> {f \in result.files : f.name # basename}
                            \cup {[name |-> basename, source |-> result.idx]},
                  generated |-> Append(result.generated, basename),
                  overwritten |-> result.overwritten
                                  \/ \E f \in result.files : f.name = basename]
            ELSE [result EXCEPT !.idx = @ + 1]
    /\ UNCHANGED <<arg, varsList, varsOpt, varsPipe, varsGallery>>

\* `return generated`
PatreonTransformReturn ==
    /\ applied \in {"", "transform_phase"}
    /\ result.idx > Len(arg)
    /\ applied' = "transformed"
    /\ UNCHANGED <<arg, result, varsList, varsOpt, varsPipe, varsGallery>>

InitPatreonTransform ==
    /\ ParkList /\ ParkOpt /\ ParkPipe /\ ParkGallery
    /\ applied = ""
    /\ arg \in SeqsUpTo(PostFiles, MaxUrls)
    /\ result = [idx |-> 1, files |-> {}, generated |-> <<>>, overwritten |-> FALSE]

NextPatreonTransform == PatreonTransformItem \/ PatreonTransformReturn

SpecPatreonTransform == InitPatreonTransform /\ [][NextPatreonTransform]_vars

Converted == {i \in DOMAIN arg : arg[i].converts}

\* C30: when the Patreon transform phase returns, no Markdown file written in
\* the run was overwritten by a later one, and the returned list names as many
\* distinct files as html files were converted, whatever the post titles.
C30_NoNameCollision ==
    applied = "transformed" =>
        /\ ~ result.overwritten
        /\ Cardinality({result.generated[k] : k \in DOMAIN result.generated})
               = Cardinality(Converted)
        /\ \A i \in Converted : \E f \in result.files : f.source = i

\* The same for runs in which no post title carries a chapter or part number.
NoNameCollisionWithoutNumbers ==
    (\A i \in DOMAIN arg : arg[i].title.chapter = Missing /\ arg[i].title.part = Missing)
    => C30_NoNameCollision

====
